---- MODULE Spec2Model ----
(***************************************************************************)
(* patientsim: the provider client adapters (GPTClient, GPTAzureClient,    *)
(* GeminiClient) and the simulation controllers (EDSimulation,             *)
(* OPSimulation), as state machines.                                       *)
(*                                                                         *)
(* Spec     one client adapter driven by any sequence of multi-turn calls, *)
(*          single-turn calls and reset_history calls.                     *)
(* SpecSim  one constructed simulation controller running simulate().      *)
(* SpecAgent the constructors of the client adapters and of DoctorAgent,   *)
(*          in one process.                                                *)
(* SpecCtor the constructors of EDSimulation and OPSimulation over a       *)
(*          constructed agent.                                             *)
(* SpecData one DatasetManager running download().                         *)
(***************************************************************************)
EXTENDS Integers, Sequences, FiniteSets, TLC

VARIABLES
    \* ---- client adapter (Spec) ----
    adapter,        \* which adapter class the object is
    histories,      \* GPTClient / GPTAzureClient: self.histories
    chat,           \* GeminiClient: self.chat, <<>> for None, <<session>> otherwise
    already_set,    \* _multi_turn_system_prompt_already_set / _multi_turn_chat_already_set
    first_turn,     \* __first_turn
    obs,            \* what the last operation was given, sent and answered
    seg,            \* bookkeeping since construction or the last reset_history
    \* ---- simulation controller (SpecSim) ----
    kind,                           \* "ED" (EDSimulation) or "OP" (OPSimulation)
    max_inferences,                 \* self.max_inferences
    current_inference,              \* self.current_inference
    enable_llm_termination_check,   \* self.enable_llm_termination_check
    termination_checker_client,     \* <<>> when never constructed, else <<adapter name>>
    checker_prompt,                 \* self.termination_checker_prompt: <<>> when never set, else <<template>>
    patient_agent,                  \* self.patient_agent: its attributes and client session
    agent,                          \* self.doctor_agent / self.admin_staff_agent: the same
    runs,                           \* number of simulate() calls made on the controller
    pc,                             \* position of simulate()
    inference_idx,                  \* the loop variable
    dialog_history,                 \* the transcript under construction
    provider_next,                  \* the answer the Doctor/Staff provider holds for its next request
    run,                            \* what the current simulate() run has done so far
    returned,                       \* <<>> or <<value handed to the caller>>
    \* ---- constructors (SpecCtor) ----
    doctor_agent,   \* <<>> or <<the DoctorAgent object's attributes>>
    simulation,     \* <<>> or <<the controller object's attributes>>
    process,        \* process-wide state: os.environ, the .env file, the seeded RNGs
    last,           \* the last constructor or utility call: its arguments and how it ended
    \* ---- dataset manager (SpecData) ----
    fs,             \* the part of the file system under save_path
    dl              \* the download() call in progress

client_vars == <<adapter, histories, chat, already_set, first_turn, obs, seg>>
sim_vars == <<kind, max_inferences, current_inference, enable_llm_termination_check,
              termination_checker_client, checker_prompt, patient_agent, agent, runs,
              pc, inference_idx, dialog_history, provider_next, run, returned>>
ctor_vars == <<doctor_agent, simulation, process, last>>
data_vars == <<fs, dl>>
ext_vars == <<ctor_vars, data_vars>>
vars == <<client_vars, sim_vars, ext_vars>>

----------------------------------------------------------------------------
(* Bounds and input alphabets *)

MaxCalls == 3       \* multi-turn calls between two resets of a client
MaxInf == 3         \* largest configured max_inferences
MaxRuns == 2        \* simulate() calls made on one controller

None == "<None>"
UserPrompts == {"U1", "U2"}
SystemPrompts == {None, "", "S1", "S2"}
Kwargs == {"opts1", "opts2"}     \* the forwarded provider options (**kwargs)
Fail == "<request raises>"       \* the provider request raises
ConfigFail == "<config raises>"  \* GenerateContentConfig(...) / chats.create(...) raises
Replies == {"A1"}
ProviderOutcomes == Replies \cup {Fail}
GPTAdapters == {"GPTClient", "GPTAzureClient"}
Adapters == GPTAdapters \cup {"GeminiClient"}

----------------------------------------------------------------------------
(* Values *)

\* Python truthiness of an Optional[str]: None and "" are falsy.
Truthy(s) == s \notin {None, ""}

\* A message content is either a plain string or a list holding one text part.
Text(s) == [form |-> "str", text |-> s]
Parts(s) == [form |-> "parts", text |-> s]

Msg(role, content) == [role |-> role, content |-> content]

\* __make_payload: a one-element list holding the user message.
make_payload(user_prompt) == << Msg("user", Parts(user_prompt)) >>

\* role of the message the provider returns (response.choices[0].message.role)
assistant_role == "assistant"

IsSystem(m) == m.role = "system"

----------------------------------------------------------------------------
(* GPTClient / GPTAzureClient (the two classes are line-for-line the same *)
(* apart from the SDK object they build)                                   *)

\* reset_history: the scan for the first system message, with its break
RECURSIVE find_system(_)
find_system(h) ==
    IF h = <<>> THEN <<>>
    ELSE IF Head(h).role = "system" THEN << Head(h) >>
    ELSE find_system(Tail(h))

\* a reset that forgets the system prompt whatever it is asked
reset_histories_clear_all(h, keep_system_prompt) == <<>>

\* reset_history: the new self.histories
reset_histories(h, keep_system_prompt) ==
    IF keep_system_prompt THEN find_system(h) ELSE <<>>

\* a reset that clears the flag whatever it is asked
reset_already_set_cleared(flag, keep_system_prompt) == FALSE

\* reset_history: the new _multi_turn_system_prompt_already_set
reset_already_set(flag, keep_system_prompt) ==
    IF keep_system_prompt THEN flag ELSE FALSE

\* a call that never discards a later system prompt
ignore_system_prompt_never(flag, system_prompt) == FALSE

\* __call__, multi-turn: "if self._multi_turn_..._already_set and system_prompt"
ignore_system_prompt(flag, system_prompt) == flag /\ Truthy(system_prompt)

\* __call__, multi-turn: the warning is logged when the prompt is ignored on a first turn
logs_warning(flag, system_prompt, ft) == ignore_system_prompt(flag, system_prompt) /\ ft

\* a call that never clears __first_turn, so that every ignored prompt is warned about
first_turn_after_kept(flag, system_prompt, ft) == ft

\* __call__, multi-turn: the new __first_turn
first_turn_after(flag, system_prompt, ft) ==
    IF ignore_system_prompt(flag, system_prompt) /\ ft THEN FALSE ELSE ft

\* __call__, multi-turn: system_prompt after "system_prompt = None"
effective_system_prompt(flag, system_prompt) ==
    IF ignore_system_prompt(flag, system_prompt) THEN None ELSE system_prompt

\* a call that appends the system entry without recording that it did
already_set_after_unrecorded(flag, sp) == flag

\* __call__, multi-turn: the new already-set flag
already_set_after(flag, sp) == flag \/ Truthy(sp)

\* a call that appends the user entry before the system entry
histories_with_prompts_user_first(h, sp, user_prompt) ==
    (h \o make_payload(user_prompt)) \o (IF Truthy(sp) THEN << Msg("system", Text(sp)) >> ELSE <<>>)

\* __call__, multi-turn: histories after the system and user entries are appended
histories_with_prompts(h, sp, user_prompt) ==
    (IF Truthy(sp) THEN Append(h, Msg("system", Text(sp))) ELSE h) \o make_payload(user_prompt)

\* __call__, multi-turn: histories after the reply is appended
histories_with_reply(h, reply) == Append(h, Msg(assistant_role, Text(reply)))

\* a call that restores the history it started with when the request raises
histories_after_raise_rolled_back(before, appended) == before

\* __call__, multi-turn: "except Exception as e: raise e" restores nothing
histories_after_raise(before, appended) == appended

\* a single-turn call that resets with keep_system_prompt=True
single_turn_keep_system_prompt_true == TRUE

\* __call__, single-turn: the argument of self.reset_history()
single_turn_keep_system_prompt == FALSE

\* __call__, single-turn: the request list
single_turn_payloads(system_prompt, user_prompt) ==
    (IF Truthy(system_prompt) THEN << Msg("system", Text(system_prompt)) >> ELSE <<>>)
        \o make_payload(user_prompt)

----------------------------------------------------------------------------
(* Bookkeeping of what an operation did; not program state *)

ObsInit ==
    [op |-> "init", user_prompt |-> None, system_prompt |-> None,
     kwargs |-> None, keep |-> FALSE, sent |-> FALSE, messages |-> <<>>, system_instruction |-> None,
     outcome |-> "none", reply |-> None, warned |-> FALSE, pre_len |-> 0]

SegNew(start) ==
    [start |-> start, calls |-> 0, first_sys |-> None, first_ok |-> FALSE,
     later_diff |-> 0, uniform |-> TRUE, warnings |-> 0]

\* seg after a multi-turn call carrying sp; ok: it returned; warned: it logged the warning
SegAfterMulti(sp, ok, warned) ==
    IF seg.calls = 0
    THEN [seg EXCEPT !.calls = 1, !.first_sys = sp, !.first_ok = ok, !.uniform = ok,
                     !.warnings = IF warned THEN 1 ELSE 0]
    ELSE [seg EXCEPT !.calls = @ + 1,
                     !.later_diff = @ + (IF Truthy(sp) /\ sp # seg.first_sys THEN 1 ELSE 0),
                     !.uniform = @ /\ ok /\ sp = seg.first_sys,
                     !.warnings = @ + (IF warned THEN 1 ELSE 0)]

\* number of entries the session held before an operation
SessionLen ==
    IF adapter \in GPTAdapters THEN Len(histories)
    ELSE IF chat = <<>> THEN 0 ELSE 1 + Len(chat[1].turns)

----------------------------------------------------------------------------
(* GPTClient / GPTAzureClient operations *)

GPTResetHistory(keep_system_prompt) ==
    /\ adapter \in GPTAdapters
    /\ first_turn' = TRUE
    /\ already_set' = reset_already_set(already_set, keep_system_prompt)
    /\ histories' = reset_histories(histories, keep_system_prompt)
    /\ obs' = [ObsInit EXCEPT !.op = "reset", !.keep = keep_system_prompt,
                              !.pre_len = SessionLen]
    /\ seg' = SegNew(IF keep_system_prompt THEN "keep" ELSE "full")
    /\ UNCHANGED <<adapter, chat, sim_vars, ext_vars>>

GPTMultiTurn(user_prompt, system_prompt, outcome) ==
    /\ adapter \in GPTAdapters
    /\ seg.calls < MaxCalls
    /\ outcome \in ProviderOutcomes
    /\ LET sp == effective_system_prompt(already_set, system_prompt)
           warned == logs_warning(already_set, system_prompt, first_turn)
           h == histories_with_prompts(histories, sp, user_prompt)
           ok == outcome # Fail
       IN  /\ first_turn' = first_turn_after(already_set, system_prompt, first_turn)
           /\ already_set' = already_set_after(already_set, sp)
           /\ histories' = IF ok THEN histories_with_reply(h, outcome)
                           ELSE histories_after_raise(histories, h)
           /\ obs' = [ObsInit EXCEPT !.op = "multi", !.user_prompt = user_prompt,
                                     !.system_prompt = system_prompt,
                                     !.sent = TRUE, !.messages = h,
                                     !.outcome = IF ok THEN "returned" ELSE "raised",
                                     !.reply = IF ok THEN outcome ELSE None,
                                     !.warned = warned, !.pre_len = SessionLen]
           /\ seg' = SegAfterMulti(system_prompt, ok, warned)
    /\ UNCHANGED <<adapter, chat, sim_vars, ext_vars>>

GPTSingleTurn(user_prompt, system_prompt, outcome) ==
    /\ adapter \in GPTAdapters
    /\ outcome \in ProviderOutcomes
    /\ LET payloads == single_turn_payloads(system_prompt, user_prompt)
           ok == outcome # Fail
       IN  /\ first_turn' = TRUE
           /\ already_set' = reset_already_set(already_set, single_turn_keep_system_prompt)
           /\ histories' = reset_histories(histories, single_turn_keep_system_prompt)
           /\ obs' = [ObsInit EXCEPT !.op = "single", !.user_prompt = user_prompt,
                                     !.system_prompt = system_prompt,
                                     !.sent = TRUE, !.messages = payloads,
                                     !.outcome = IF ok THEN "returned" ELSE "raised",
                                     !.reply = IF ok THEN outcome ELSE None,
                                     !.pre_len = SessionLen]
           /\ seg' = SegNew(IF single_turn_keep_system_prompt THEN "keep" ELSE "full")
    /\ UNCHANGED <<adapter, chat, sim_vars, ext_vars>>

----------------------------------------------------------------------------
(* GeminiClient *)

\* __call__, multi-turn: the session chats.create builds
new_chat(sp, kwargs) ==
    << [system_instruction |-> IF Truthy(sp) THEN sp ELSE None,
        options |-> kwargs, turns |-> <<>>] >>

\* a call that marks the prompt as fixed only when it created the session with one
chat_already_set_after_with_prompt_only(flag, created, sp) ==
    IF created THEN Truthy(sp) ELSE flag

\* a call that raises the flag before the session is built
chat_already_set_after_before_create(flag, created, sp) == TRUE

\* __call__, multi-turn: the new _multi_turn_chat_already_set
chat_already_set_after(flag, created, sp) == IF created THEN TRUE ELSE flag

\* chat.send_message answered: the session keeps the exchange
chat_with_turn(c, user_prompt, reply) ==
    << [c[1] EXCEPT !.turns = @ \o << Msg("user", Parts(user_prompt)),
                                      Msg("model", Text(reply)) >>] >>

GeminiResetHistory ==
    /\ adapter = "GeminiClient"
    /\ chat' = <<>>
    /\ already_set' = FALSE
    /\ first_turn' = TRUE
    /\ obs' = [ObsInit EXCEPT !.op = "reset", !.pre_len = SessionLen]
    /\ seg' = SegNew("full")
    /\ UNCHANGED <<adapter, histories, sim_vars, ext_vars>>

GeminiMultiTurn(user_prompt, system_prompt, kwargs, outcome) ==
    /\ adapter = "GeminiClient"
    /\ seg.calls < MaxCalls
    /\ outcome \in ProviderOutcomes \cup {ConfigFail}
    /\ outcome = ConfigFail => chat = <<>>     \* the config is built only for a new session
    /\ LET sp == effective_system_prompt(already_set, system_prompt)
           warned == logs_warning(already_set, system_prompt, first_turn)
           created == chat = <<>> /\ outcome # ConfigFail
           c == IF created THEN new_chat(sp, kwargs) ELSE chat
           sent == outcome # ConfigFail
           ok == outcome \in Replies
       IN  /\ first_turn' = first_turn_after(already_set, system_prompt, first_turn)
           /\ already_set' = chat_already_set_after(already_set, created, sp)
           /\ chat' = IF ok THEN chat_with_turn(c, user_prompt, outcome) ELSE c
           /\ obs' = [ObsInit EXCEPT !.op = "multi", !.user_prompt = user_prompt,
                                     !.system_prompt = system_prompt,
                                     !.kwargs = kwargs, !.sent = sent,
                                     !.messages = IF sent THEN << Parts(user_prompt) >> ELSE <<>>,
                                     !.outcome = IF ok THEN "returned" ELSE "raised",
                                     !.reply = IF ok THEN outcome ELSE None,
                                     !.warned = warned, !.pre_len = SessionLen]
           /\ seg' = SegAfterMulti(system_prompt, ok, warned)
    /\ UNCHANGED <<adapter, histories, sim_vars, ext_vars>>

GeminiSingleTurn(user_prompt, system_prompt, kwargs, outcome) ==
    /\ adapter = "GeminiClient"
    /\ outcome \in ProviderOutcomes \cup {ConfigFail}
    /\ LET sent == outcome # ConfigFail
           ok == outcome \in Replies
       IN  /\ chat' = <<>>
           /\ already_set' = FALSE
           /\ first_turn' = TRUE
           /\ obs' = [ObsInit EXCEPT !.op = "single", !.user_prompt = user_prompt,
                                     !.system_prompt = system_prompt,
                                     !.sent = sent,
                                     !.messages = IF sent THEN make_payload(user_prompt) ELSE <<>>,
                                     !.system_instruction = IF sent THEN system_prompt ELSE None,
                                     !.outcome = IF ok THEN "returned" ELSE "raised",
                                     !.reply = IF ok THEN outcome ELSE None,
                                     !.pre_len = SessionLen]
           /\ seg' = SegNew("full")
    /\ UNCHANGED <<adapter, histories, sim_vars, ext_vars>>

----------------------------------------------------------------------------
(* Spec: one client adapter, from its construction *)

\* the controller variables while only a client is exercised
SimAbsent ==
    /\ kind = "none"
    /\ max_inferences = 0
    /\ current_inference = 0
    /\ enable_llm_termination_check = FALSE
    /\ termination_checker_client = <<>>
    /\ checker_prompt = <<>>
    /\ patient_agent = <<>>
    /\ agent = <<>>
    /\ runs = 0
    /\ pc = "absent"
    /\ inference_idx = 0
    /\ dialog_history = <<>>
    /\ provider_next = None
    /\ run = <<>>
    /\ returned = <<>>

\* the constructor and dataset variables while neither is exercised
CtorAbsent ==
    /\ doctor_agent = <<>>
    /\ simulation = <<>>
    /\ process = <<>>
    /\ last = <<>>

DataAbsent ==
    /\ fs = <<>>
    /\ dl = <<>>

\* __init__ of the three adapters
ClientInit ==
    /\ adapter \in Adapters
    /\ histories = <<>>
    /\ chat = <<>>
    /\ already_set = FALSE
    /\ first_turn = TRUE
    /\ obs = ObsInit
    /\ seg = SegNew("fresh")

Init == ClientInit /\ SimAbsent /\ CtorAbsent /\ DataAbsent

Next ==
    \/ \E keep \in BOOLEAN : GPTResetHistory(keep)
    \/ \E u \in UserPrompts, sp \in SystemPrompts, out \in ProviderOutcomes :
          GPTMultiTurn(u, sp, out)
    \/ \E u \in UserPrompts, sp \in SystemPrompts, out \in ProviderOutcomes :
          GPTSingleTurn(u, sp, out)
    \/ GeminiResetHistory
    \/ \E u \in UserPrompts, sp \in SystemPrompts, kw \in Kwargs,
          out \in ProviderOutcomes \cup {ConfigFail} : GeminiMultiTurn(u, sp, kw, out)
    \/ \E u \in UserPrompts, sp \in SystemPrompts, kw \in Kwargs,
          out \in ProviderOutcomes \cup {ConfigFail} : GeminiSingleTurn(u, sp, kw, out)

Spec == Init /\ [][Next]_vars

----------------------------------------------------------------------------
(* EDSimulation / OPSimulation: values *)

\* A transcript content is a sequence of text pieces; + is concatenation.
Raises == << Fail >>                    \* an agent or client call that raises

doctor_greet == << "Hello, how can I help you?" >>
staff_greet == << "<staff_greet>" >>
PatientReplies == { << "P1" >>, << "P2" >> }
ConcludingReply == << "<concluding reply>" >>
AgentReplies == { << "D1" >>, ConcludingReply }

\* the final-turn instruction appended to the Doctor/Staff prompt
final_turn_instruction ==
    "\nThis is the final turn. Now, you must provide your top5 differential diagnosis."

\* the role label of the driven agent's transcript entries
agent_role(k) == IF k = "ED" THEN "Doctor" ELSE "Staff"

\* the driven agent's greeting
agent_greet(k) == IF k = "ED" THEN doctor_greet ELSE staff_greet

\* detect_ed_termination / detect_op_termination: a pure predicate of one reply
detect_termination(k, response) == response = ConcludingReply

\* DoctorAgent.__call__(user_prompt, using_multi_turn) takes no verbose argument;
\* the Patient and Staff agents take (user_prompt, using_multi_turn, verbose)
accepts_verbose(cls) == cls # "DoctorAgent"

\* the class of the agent a controller drives
driven_agent(k) == IF k = "ED" THEN "DoctorAgent" ELSE "AdminStaffAgent"

\* the checker's prompt template, with its {response} placeholder
termination_checker_prompt == << "<checker prompt> ", "{response}", " <Y or N?>" >>

\* str.format(response=...) on a template
RECURSIVE format(_, _)
format(template, response) ==
    IF template = <<>> THEN <<>>
    ELSE (IF Head(template) = "{response}" THEN response ELSE << Head(template) >>)
             \o format(Tail(template), response)

\* The checker's reply is a sequence of characters.
CheckerReplies ==
    { << "Y" >>, << "y" >>, << " ", "y", "\n" >>, << "N" >>, << "Y", "E", "S" >>, <<>> }

IsSpace(c) == c \in {" ", "\n", "\t"}

RECURSIVE lstrip(_)
lstrip(t) == IF t # <<>> /\ IsSpace(Head(t)) THEN lstrip(Tail(t)) ELSE t

RECURSIVE rstrip(_)
rstrip(t) ==
    IF t # <<>> /\ IsSpace(t[Len(t)]) THEN rstrip(SubSeq(t, 1, Len(t) - 1)) ELSE t

\* str.strip()
strip(t) == rstrip(lstrip(t))

\* str.upper()
upper(t) ==
    [i \in 1..Len(t) |->
        CASE t[i] = "y" -> "Y" [] t[i] = "n" -> "N" [] t[i] = "e" -> "E"
          [] t[i] = "s" -> "S" [] OTHER -> t[i]]

\* a checker reply taken as it comes, case kept
checker_verdict_case_kept(reply) == strip(reply)

\* simulate: termination_checker_client(...).strip().upper()
checker_verdict(reply) == upper(strip(reply))

\* a final-turn test that is true of every iteration
is_final_turn_always(idx, max) == TRUE

\* simulate: "inference_idx == self.max_inferences - 1"
is_final_turn(idx, max) == idx = max - 1

\* simulate: the user_prompt argument of the Doctor/Staff call
agent_user_prompt(dialog, idx, max) ==
    IF is_final_turn(idx, max)
    THEN dialog[Len(dialog)].content \o << final_turn_instruction >>
    ELSE dialog[Len(dialog)].content

\* a Patient call that is always given the greeting
patient_user_prompt_greeting(dialog) == dialog[1].content

\* simulate: the user_prompt argument of the Patient call, dialog_history[-1]["content"]
patient_user_prompt(dialog) == dialog[Len(dialog)].content

\* a Patient entry filed under the agent's role
patient_entry_as_agent(reply) == [role |-> "Doctor", content |-> reply]

\* simulate: the Patient entry appended to the transcript
patient_entry(reply) == [role |-> "Patient", content |-> reply]

\* a loop with no turn cap
loop_continues_always(started, max) == TRUE

\* a loop that stops one iteration early
loop_continues_one_short(started, max) == started + 1 < max

\* simulate: "for inference_idx in range(self.max_inferences)" has a next value
loop_continues(started, max) == started < max

\* the system prompts the agents were built with
patient_system_prompt == "<patient system prompt>"
agent_system_prompt(k) ==
    IF k = "ED" THEN "<doctor system prompt>" ELSE "<staff system prompt>"

\* an agent's client right after construction: no history, no prompt fixed
fresh_client == << [histories |-> <<>>, already_set |-> FALSE, first_turn |-> TRUE] >>

\* GPTClient.__call__, multi-turn, on an agent's client c (<<>>: the client is left
\* out of the model); outcome is the reply, or Raises
client_multi_turn(c, system_prompt, user_prompt, outcome) ==
    IF c = <<>> THEN <<>>
    ELSE LET sp == effective_system_prompt(c[1].already_set, system_prompt)
             h == histories_with_prompts(c[1].histories, sp, user_prompt)
         IN  << [histories |-> IF outcome = Raises
                               THEN histories_after_raise(c[1].histories, h)
                               ELSE histories_with_reply(h, outcome),
                 already_set |-> already_set_after(c[1].already_set, sp),
                 first_turn |-> first_turn_after(c[1].already_set, system_prompt,
                                                 c[1].first_turn)] >>

\* an agent call that also counts the turn against the agent's budget
agent_call_counting(a, user_prompt, outcome) ==
    [a EXCEPT !.max_inferences = @ - 1,
              !.client = client_multi_turn(@, a.system_prompt, user_prompt, outcome)]

\* DoctorAgent.__call__ (and, by the spec, the Patient and Staff agents' __call__): the
\* client is called with self.system_prompt; no attribute of the agent is assigned
agent_call(a, user_prompt, outcome) ==
    [a EXCEPT !.client = client_multi_turn(@, a.system_prompt, user_prompt, outcome)]

\* a simulate that starts by resetting the agent's client
entering_simulate_resetting(a) ==
    [a EXCEPT !.client = IF @ = <<>> THEN <<>> ELSE fresh_client]

\* simulate, before the loop: the agent's prompt and greeting are read, and nothing
\* is called on its client
entering_simulate(a) == a

\* what a run has done so far; not program state
RunInit ==
    [started |-> 0, completed |-> 0, patient_calls |-> <<>>,
     at_start |-> [patient |-> <<>>, agent |-> <<>>],
     agent_prompts |-> <<>>, checker_calls |-> <<>>,
     sleeps |-> 0, error |-> "none", stopped_by |-> "none", first_answer |-> <<>>]

----------------------------------------------------------------------------
(* EDSimulation.simulate / OPSimulation.simulate *)

\* a call that raises, were simulate to log it and go on to the pause
after_raise_swallowed == "sleep"

\* simulate has no try/except around its calls: a call that raises leaves simulate
after_raise == "raised"

\* a break that still takes the pause at the end of the iteration
after_break_pausing == "sleep"

\* simulate: "break" leaves the loop at once, past the time.sleep(1.0) that ends the body
after_break == "completed"

\* simulate is entered: the transcript starts with the greeting
Simulate ==
    /\ pc \in {"idle", "returned", "raised"}
    /\ runs < MaxRuns
    /\ runs' = runs + 1
    /\ patient_agent' = entering_simulate(patient_agent)
    /\ agent' = entering_simulate(agent)
    /\ dialog_history' = << [role |-> agent_role(kind), content |-> agent.greet] >>
    /\ run' = [RunInit EXCEPT !.at_start = [patient |-> patient_agent'.client,
                                            agent |-> agent'.client]]
    /\ returned' = <<>>
    /\ pc' = "for"
    /\ UNCHANGED <<kind, max_inferences, current_inference, enable_llm_termination_check,
                   termination_checker_client, checker_prompt,
                   inference_idx, provider_next, client_vars, ext_vars>>

\* the for statement takes its next value, or the loop is exhausted
ForNext ==
    /\ pc = "for"
    /\ IF loop_continues(run.started, max_inferences)
       THEN /\ inference_idx' = run.started
            /\ run' = [run EXCEPT !.started = @ + 1]
            /\ pc' = "patient"
       ELSE /\ run' = [run EXCEPT !.stopped_by = "exhausted"]
            /\ pc' = "completed"
            /\ UNCHANGED inference_idx
    /\ UNCHANGED <<kind, max_inferences, current_inference, enable_llm_termination_check,
                   termination_checker_client, checker_prompt, patient_agent, agent, runs,
                   dialog_history, provider_next, returned,
                   client_vars, ext_vars>>

\* the Patient agent is called with the last entry's content
PatientTurn(outcome) ==
    /\ pc = "patient"
    /\ outcome \in PatientReplies \cup {Raises}
    /\ patient_agent' = agent_call(patient_agent, patient_user_prompt(dialog_history), outcome)
    /\ LET r == [run EXCEPT !.patient_calls = Append(@,
                    [idx |-> inference_idx,
                     user_prompt |-> patient_user_prompt(dialog_history),
                     using_multi_turn |-> TRUE])]
       IN  IF outcome = Raises
           THEN /\ pc' = after_raise
                /\ run' = [r EXCEPT !.error = "ExternalFailure"]
                /\ UNCHANGED dialog_history
           ELSE /\ dialog_history' = Append(dialog_history, patient_entry(outcome))
                /\ pc' = "agent"
                /\ run' = r
    /\ UNCHANGED <<kind, max_inferences, current_inference, enable_llm_termination_check,
                   termination_checker_client, checker_prompt, agent, runs,
                   inference_idx, provider_next, returned,
                   client_vars, ext_vars>>

\* the Doctor/Staff agent is called with user_prompt, using_multi_turn and verbose
AgentTurn ==
    /\ pc = "agent"
    /\ LET prompt == agent_user_prompt(dialog_history, inference_idx, max_inferences)
           r == [run EXCEPT !.agent_prompts = Append(@, prompt),
                            !.first_answer = IF inference_idx = 0 THEN provider_next ELSE @]
       IN  IF ~accepts_verbose(driven_agent(kind))
           THEN /\ pc' = after_raise
                /\ run' = [r EXCEPT !.error = "TypeError"]
                /\ UNCHANGED <<dialog_history, provider_next, agent>>
           ELSE /\ provider_next' \in AgentReplies \cup {Raises}
                /\ agent' = agent_call(agent, prompt, provider_next)
                /\ IF provider_next = Raises
                   THEN /\ pc' = after_raise
                        /\ run' = [r EXCEPT !.error = "ExternalFailure"]
                        /\ UNCHANGED dialog_history
                   ELSE /\ dialog_history' = Append(dialog_history,
                              [role |-> agent_role(kind), content |-> provider_next])
                        /\ run' = [r EXCEPT !.completed = @ + 1]
                        /\ pc' = "detect"
    /\ UNCHANGED <<kind, max_inferences, current_inference, enable_llm_termination_check,
                   termination_checker_client, checker_prompt, patient_agent, runs,
                   inference_idx, returned, client_vars, ext_vars>>

\* "if detect_..._termination(response): break / elif self.enable_llm_termination_check"
DetectTermination ==
    /\ pc = "detect"
    /\ IF detect_termination(kind, dialog_history[Len(dialog_history)].content)
       THEN /\ pc' = after_break
            /\ run' = [run EXCEPT !.stopped_by = "detector"]
       ELSE /\ pc' = IF enable_llm_termination_check THEN "checker" ELSE "sleep"
            /\ UNCHANGED run
    /\ UNCHANGED <<kind, max_inferences, current_inference, enable_llm_termination_check,
                   termination_checker_client, checker_prompt, patient_agent, agent, runs,
                   inference_idx, dialog_history, provider_next,
                   returned, client_vars, ext_vars>>

\* the checker client is called on the formatted template; "Y" breaks the loop
CheckerTurn(outcome) ==
    /\ pc = "checker"
    /\ outcome \in CheckerReplies \cup {Raises}
    /\ LET termination_prompt ==
               format(checker_prompt[1], dialog_history[Len(dialog_history)].content)
           r == [run EXCEPT !.checker_calls = Append(@,
                    [idx |-> inference_idx, user_prompt |-> termination_prompt,
                     using_multi_turn |-> FALSE, reply |-> outcome])]
       IN  IF outcome = Raises
           THEN /\ pc' = after_raise
                /\ run' = [r EXCEPT !.error = "ExternalFailure"]
           ELSE IF checker_verdict(outcome) = << "Y" >>
           THEN /\ pc' = after_break
                /\ run' = [r EXCEPT !.stopped_by = "checker"]
           ELSE /\ pc' = "sleep"
                /\ run' = r
    /\ UNCHANGED <<kind, max_inferences, current_inference, enable_llm_termination_check,
                   termination_checker_client, checker_prompt, patient_agent, agent, runs,
                   inference_idx, dialog_history, provider_next,
                   returned, client_vars, ext_vars>>

\* time.sleep(1.0) at the end of an iteration that did not break
Sleep ==
    /\ pc = "sleep"
    /\ run' = [run EXCEPT !.sleeps = @ + 1]
    /\ pc' = "for"
    /\ UNCHANGED <<kind, max_inferences, current_inference, enable_llm_termination_check,
                   termination_checker_client, checker_prompt, patient_agent, agent, runs,
                   inference_idx, dialog_history, provider_next,
                   returned, client_vars, ext_vars>>

\* the value simulate returns: the transcript (ED), or the record holding it (OP)
simulate_output(k, dialog) ==
    IF k = "ED" THEN dialog
    ELSE [dialog_history |-> dialog,
          patient_token_usage |-> "<patient token usages>",
          admin_staff_token_usage |-> "<staff token usages>"]

Return ==
    /\ pc = "completed"
    /\ returned' = << simulate_output(kind, dialog_history) >>
    /\ pc' = "returned"
    /\ UNCHANGED <<kind, max_inferences, current_inference, enable_llm_termination_check,
                   termination_checker_client, checker_prompt, patient_agent, agent, runs,
                   inference_idx, dialog_history, provider_next,
                   run, client_vars, ext_vars>>

----------------------------------------------------------------------------
(* SpecSim: one constructed controller *)

\* the client variables while only a controller is exercised
ClientAbsent ==
    /\ adapter = "none"
    /\ histories = <<>>
    /\ chat = <<>>
    /\ already_set = FALSE
    /\ first_turn = TRUE
    /\ obs = ObsInit
    /\ seg = SegNew("fresh")

\* __init__: the controller after construction (the checker client exists only if enabled)
SimConstructed ==
    /\ kind \in {"ED", "OP"}
    /\ max_inferences \in 0..MaxInf
    /\ current_inference = 0
    /\ enable_llm_termination_check \in BOOLEAN
    /\ termination_checker_client =
           IF enable_llm_termination_check THEN << "GeminiClient" >> ELSE <<>>
    /\ checker_prompt =
           IF enable_llm_termination_check THEN << termination_checker_prompt >> ELSE <<>>
    /\ patient_agent = [system_prompt |-> patient_system_prompt, client |-> <<>>]
    /\ agent = [max_inferences |-> max_inferences, greet |-> agent_greet(kind),
                system_prompt |-> agent_system_prompt(kind), client |-> <<>>]
    /\ runs = 0
    /\ pc = "idle"
    /\ inference_idx = 0
    /\ dialog_history = <<>>
    /\ provider_next \in AgentReplies \cup {Raises}
    /\ run = RunInit
    /\ returned = <<>>

InitSim == ClientAbsent /\ SimConstructed /\ CtorAbsent /\ DataAbsent

NextSim ==
    \/ Simulate
    \/ ForNext
    \/ \E out \in PatientReplies \cup {Raises} : PatientTurn(out)
    \/ AgentTurn
    \/ DetectTermination
    \/ \E out \in CheckerReplies \cup {Raises} : CheckerTurn(out)
    \/ Sleep
    \/ Return

SpecSim == InitSim /\ [][NextSim]_vars

\* SpecRuns: a controller whose agents' client sessions are followed over
\* successive simulate() calls, the checker disabled
RunBudgets == {1, 2}

RunsConstructed ==
    /\ kind \in {"ED", "OP"}
    /\ max_inferences \in RunBudgets
    /\ current_inference = 0
    /\ enable_llm_termination_check = FALSE
    /\ termination_checker_client = <<>>
    /\ checker_prompt = <<>>
    /\ patient_agent = [system_prompt |-> patient_system_prompt, client |-> fresh_client]
    /\ agent = [max_inferences |-> max_inferences, greet |-> agent_greet(kind),
                system_prompt |-> agent_system_prompt(kind), client |-> fresh_client]
    /\ runs = 0
    /\ pc = "idle"
    /\ inference_idx = 0
    /\ dialog_history = <<>>
    /\ provider_next \in AgentReplies \cup {Raises}
    /\ run = RunInit
    /\ returned = <<>>

InitRuns == ClientAbsent /\ RunsConstructed /\ CtorAbsent /\ DataAbsent

NextRuns ==
    \/ Simulate
    \/ ForNext
    \/ \E out \in PatientReplies \cup {Raises} : PatientTurn(out)
    \/ AgentTurn
    \/ DetectTermination
    \/ Sleep
    \/ Return

SpecRuns == InitRuns /\ [][NextRuns]_vars

\* simulate runs in one thread whose every call returns or raises: a statement
\* that can be executed is executed
SpecSimFair == SpecSim /\ WF_vars(NextSim)

----------------------------------------------------------------------------
(* SpecAgent: text helpers *)

\* model identifiers, as the characters that `in` and str.lower() work on
M_gemini == << "g", "e", "m", "i", "n", "i", "-", "2" >>
M_gpt == << "g", "p", "t", "-", "4" >>
M_GPT == << "G", "P", "T", "-", "4" >>
M_both == << "g", "p", "t", "-", "g", "e", "m", "i", "n", "i" >>
M_other == << "o", "3" >>
ModelNames == {M_gemini, M_gpt, M_GPT, M_both, M_other}

gemini == << "g", "e", "m", "i", "n", "i" >>
gpt == << "g", "p", "t" >>

\* str.lower()
lower(t) ==
    [i \in 1..Len(t) |->
        CASE t[i] = "G" -> "g" [] t[i] = "P" -> "p" [] t[i] = "T" -> "t"
          [] OTHER -> t[i]]

\* sub in s
contains(sub, s) ==
    \E i \in 1..(Len(s) - Len(sub) + 1) : SubSeq(s, i, i + Len(sub) - 1) = sub

Unsupported == "<unsupported>"

----------------------------------------------------------------------------
(* SpecAgent: the process environment and the adapters' _init_environment *)

EnvVars == {"GOOGLE_API_KEY", "OPENAI_API_KEY", "AZURE_OPENAI_ENDPOINT"}
NoVars == [v \in EnvVars |-> None]
FromEnviron == [v \in EnvVars |-> "<set in os.environ>"]
FromDotenv == [v \in EnvVars |-> "<set in .env>"]
ApiKeys == {None, "", "K1"}
Endpoints == {None, "", "E1"}

\* load_dotenv(override=True): every variable of the .env file replaces the process's
load_dotenv(proc) ==
    [proc EXCEPT !.environ =
        [v \in EnvVars |-> IF proc.dotenv[v] # None THEN proc.dotenv[v] ELSE @[v]]]

\* the variable an adapter takes its key from
key_variable(cls) == IF cls = "GeminiClient" THEN "GOOGLE_API_KEY" ELSE "OPENAI_API_KEY"

\* the fallback, were it taken whatever the argument
needs_fallback_always(value) == TRUE

\* "if not api_key:" / "if not azure_endpoint:"
needs_fallback(value) == ~Truthy(value)

\* _init_environment of GeminiClient, GPTClient and GPTAzureClient
init_environment(cls, api_key, azure_endpoint, proc) ==
    LET load_key == needs_fallback(api_key)
        load_endpoint == cls = "GPTAzureClient" /\ needs_fallback(azure_endpoint)
        p1 == IF load_key THEN load_dotenv(proc) ELSE proc
        p2 == IF load_endpoint THEN load_dotenv(p1) ELSE p1
    IN  [process |-> p2,
         dotenv_loads |-> (IF load_key THEN 1 ELSE 0) + (IF load_endpoint THEN 1 ELSE 0),
         environ_reads |-> (IF load_key THEN {key_variable(cls)} ELSE {})
                            \cup (IF load_endpoint THEN {"AZURE_OPENAI_ENDPOINT"} ELSE {}),
         api_key |-> IF load_key THEN p1.environ[key_variable(cls)] ELSE api_key,
         azure_endpoint |->
            IF cls # "GPTAzureClient" THEN None
            ELSE IF load_endpoint THEN p2.environ["AZURE_OPENAI_ENDPOINT"]
            ELSE azure_endpoint]

\* GeminiVertexClient(model, project_id, location, credential_path): no API key involved
vertex_init_environment(proc) ==
    [process |-> proc, dotenv_loads |-> 0, environ_reads |-> {},
     api_key |-> None, azure_endpoint |-> None]

\* the adapter's constructor
construct_client(cls, api_key, azure_endpoint, proc) ==
    IF cls = "GeminiVertexClient" THEN vertex_init_environment(proc)
    ELSE init_environment(cls, api_key, azure_endpoint, proc)

\* what a constructor call that builds no adapter leaves of the above
no_client(proc) ==
    [process |-> proc, dotenv_loads |-> 0, environ_reads |-> {},
     api_key |-> None, azure_endpoint |-> None]

----------------------------------------------------------------------------
(* SpecAgent: DoctorAgent and the client adapters, constructed *)

top_k_diagnosis == 5
NoSeed == <<>>
Seeds == {NoSeed, << 0 >>, << 7 >>}
Budgets == -1..MaxInf

\* "if self.random_seed:"
seed_truthy(seed) == seed # NoSeed /\ seed[1] # 0

\* _init_model: the adapter class chosen for a model name
select_client_gpt_first(model) ==
    IF contains(gpt, lower(model)) THEN "GPTClient"
    ELSE IF contains(gemini, lower(model)) THEN "GeminiClient"
    ELSE Unsupported

select_client(model) ==
    IF contains(gemini, lower(model)) THEN "GeminiClient"
    ELSE IF contains(gpt, lower(model)) THEN "GPTClient"
    ELSE Unsupported

\* prompt templates: literal text and replacement fields ("" is the field of "{}")
Lit(s) == [t |-> "lit", v |-> s]
Field(name) == [t |-> "field", v |-> name]
T_default ==
    << Lit("You have "), Field("total_idx"), Lit(" turns; turn "), Field("curr_idx"),
       Lit(", left "), Field("remain_idx"), Lit("; give "), Field("top_k_diagnosis"),
       Lit(" diagnoses. Patient: "), Field("age"), Field("gender"),
       Field("arrival_transport") >>
T_budget == << Lit("Budget "), Field("total_idx") >>
T_unknown == << Lit("Budget "), Field("total_idx"), Lit(" for "), Field("name") >>
T_positional == << Lit("Budget "), Field("") >>

\* the prompt files on disk, by path (a path outside the domain does not exist)
PromptFiles ==
    [p \in {"budget.txt", "unknown.txt", "positional.txt"} |->
        CASE p = "budget.txt" -> T_budget
          [] p = "unknown.txt" -> T_unknown
          [] OTHER -> T_positional]
PromptPaths == {None, "", "missing.txt"} \cup DOMAIN PromptFiles

\* _init_prompt
init_prompt(system_prompt_path) ==
    IF ~Truthy(system_prompt_path) THEN [error |-> "none", template |-> T_default]
    ELSE IF system_prompt_path \notin DOMAIN PromptFiles
    THEN [error |-> "FileNotFoundError", template |-> <<>>]
    ELSE [error |-> "none", template |-> PromptFiles[system_prompt_path]]

\* the keyword arguments build_prompt passes to str.format
prompt_data(max_inf, cur, top_k) ==
    [total_idx |-> ToString(max_inf), curr_idx |-> ToString(cur),
     remain_idx |-> ToString(max_inf - cur), top_k_diagnosis |-> ToString(top_k),
     age |-> "N/A", gender |-> "N/A", arrival_transport |-> "N/A"]

\* str.format(**data): the fields are resolved left to right, the first failure raises
RECURSIVE str_format(_, _)
str_format(template, data) ==
    IF template = <<>> THEN [error |-> "none", text |-> <<>>]
    ELSE LET tk == Head(template)
         IN  IF tk.t = "field" /\ tk.v = "" THEN [error |-> "IndexError", text |-> <<>>]
             ELSE IF tk.t = "field" /\ tk.v \notin DOMAIN data
             THEN [error |-> "KeyError", text |-> <<>>]
             ELSE LET rest == str_format(Tail(template), data)
                  IN  IF rest.error # "none" THEN rest
                      ELSE [error |-> "none",
                            text |-> << IF tk.t = "field" THEN data[tk.v] ELSE tk.v >>
                                     \o rest.text]

\* DoctorAgent.build_prompt
build_prompt(template, max_inf, cur, top_k) ==
    str_format(template, prompt_data(max_inf, cur, top_k))

\* prompt_valid_check: the error it raises for a key missing from the data
prompt_valid_check(template, data) ==
    IF \E i \in 1..Len(template) : template[i].t = "field" /\ template[i].v \notin DOMAIN data
    THEN "ValueError" ELSE "none"

DoctorBase ==
    [model |-> M_gemini, max_inferences |-> 3, random_seed |-> NoSeed,
     system_prompt_path |-> None, api_key |-> "K1"]
DoctorArgs ==
    {[DoctorBase EXCEPT !.model = m] : m \in ModelNames}
    \cup {[DoctorBase EXCEPT !.model = m, !.random_seed = s] :
              m \in {M_gemini, M_other}, s \in Seeds}
    \cup {[DoctorBase EXCEPT !.max_inferences = b] : b \in Budgets}
    \cup {[DoctorBase EXCEPT !.system_prompt_path = p] : p \in PromptPaths}
    \cup {[DoctorBase EXCEPT !.model = m, !.api_key = k] :
              m \in {M_gemini, M_gpt}, k \in ApiKeys}

\* what the last constructor call was given and how it ended
LastInit ==
    [op |-> "none", args |-> <<>>, error |-> "none", set_seed_calls |-> <<>>,
     created |-> <<>>, prompt_built |-> FALSE, dotenv_loads |-> 0, environ_reads |-> {},
     api_key |-> None, azure_endpoint |-> None, agent_budget_before |-> 0]

\* the attributes of a DoctorAgent whose construction completed
doctor_object(a, cls, system_prompt, template) ==
    [current_inference |-> 0, max_inferences |-> a.max_inferences,
     top_k_diagnosis |-> top_k_diagnosis, random_seed |-> a.random_seed,
     model |-> a.model, client |-> cls, system_prompt |-> system_prompt,
     built_from |-> template]

\* DoctorAgent.__init__
DoctorAgentInit(a) ==
    /\ LET seeded == seed_truthy(a.random_seed)
           p1 == IF seeded THEN [process EXCEPT !.seed = a.random_seed] ELSE process
           cls == select_client(a.model)
           env == IF cls = Unsupported THEN no_client(p1)
                  ELSE construct_client(cls, a.api_key, None, p1)
           tmpl == init_prompt(a.system_prompt_path)
           built == build_prompt(tmpl.template, a.max_inferences, 0, top_k_diagnosis)
           err == IF cls = Unsupported THEN "ValueError"
                  ELSE IF tmpl.error # "none" THEN tmpl.error
                  ELSE built.error
       IN  /\ process' = env.process
           /\ doctor_agent' =
                 IF err # "none" THEN <<>>
                 ELSE << doctor_object(a, cls, built.text, tmpl.template) >>
           /\ last' = [op |-> "DoctorAgent", args |-> a, error |-> err,
                       set_seed_calls |-> IF seeded THEN << a.random_seed >> ELSE <<>>,
                       created |-> IF cls = Unsupported THEN <<>> ELSE << cls >>,
                       prompt_built |-> err = "none",
                       dotenv_loads |-> env.dotenv_loads,
                       environ_reads |-> env.environ_reads,
                       api_key |-> env.api_key, azure_endpoint |-> env.azure_endpoint,
                       agent_budget_before |-> a.max_inferences]
    /\ UNCHANGED <<simulation, client_vars, sim_vars, data_vars>>

\* GeminiClient(model, api_key) / GPTClient(model, api_key) /
\* GPTAzureClient(model, api_key, azure_endpoint), constructed on its own
ClientConstruct(cls, api_key, azure_endpoint) ==
    /\ cls \in Adapters
    /\ cls # "GPTAzureClient" => azure_endpoint = None
    /\ LET env == construct_client(cls, api_key, azure_endpoint, process)
       IN  /\ process' = env.process
           /\ last' = [op |-> cls,
                       args |-> [api_key |-> api_key, azure_endpoint |-> azure_endpoint],
                       error |-> "none", set_seed_calls |-> <<>>, created |-> << cls >>,
                       prompt_built |-> FALSE,
                       dotenv_loads |-> env.dotenv_loads,
                       environ_reads |-> env.environ_reads,
                       api_key |-> env.api_key, azure_endpoint |-> env.azure_endpoint,
                       agent_budget_before |-> 0]
    /\ UNCHANGED <<doctor_agent, simulation, client_vars, sim_vars, data_vars>>

\* a process before any constructor has run
AgentInit ==
    /\ doctor_agent = <<>>
    /\ simulation = <<>>
    /\ process \in {[environ |-> e, dotenv |-> d, seed |-> NoSeed] :
                       e \in {NoVars, FromEnviron}, d \in {NoVars, FromDotenv}}
    /\ last = LastInit

InitAgent == ClientAbsent /\ SimAbsent /\ DataAbsent /\ AgentInit

NextAgent ==
    \/ \E a \in DoctorArgs : DoctorAgentInit(a)
    \/ \E cls \in Adapters, key \in ApiKeys, ep \in Endpoints : ClientConstruct(cls, key, ep)

SpecAgent == InitAgent /\ [][NextAgent]_vars

----------------------------------------------------------------------------
(* utils.common_utils.prompt_valid_check, on prompts given character by character *)

MaxPromptLen == 5   \* longest prompt text, in characters

PromptChars == {"{", "}", "a", "b", "\n"}
Prompts == UNION {[1..n -> PromptChars] : n \in 0..MaxPromptLen}
\* a data_dict, by its keys (the values are not read)
DataDicts == SUBSET { << "a" >>, << "a", "b" >> }

\* the first position from i on that ends a match opened before i: the nearest "}",
\* unless a newline comes first ("." does not match a newline); 0 if there is none
RECURSIVE closing_brace(_, _)
closing_brace(prompt, i) ==
    IF i > Len(prompt) \/ prompt[i] = "\n" THEN 0
    ELSE IF prompt[i] = "}" THEN i
    ELSE closing_brace(prompt, i + 1)

\* re.findall(r'\{(.*?)\}', prompt), scanning from position i: leftmost matches,
\* each as short as possible, none overlapping the one before
RECURSIVE findall(_, _)
findall(prompt, i) ==
    IF i > Len(prompt) THEN <<>>
    ELSE IF prompt[i] = "{" /\ closing_brace(prompt, i + 1) # 0
    THEN LET j == closing_brace(prompt, i + 1)
         IN  << SubSeq(prompt, i + 1, j - 1) >> \o findall(prompt, j + 1)
    ELSE findall(prompt, i + 1)

\* "missing_keys = [key for key in keys if key not in data_dict]"
missing_keys(prompt, data_dict) ==
    SelectSeq(findall(prompt, 1), LAMBDA key : key \notin data_dict)

\* prompt_valid_check(prompt, data_dict): raises ValueError naming missing_keys, or
\* falls off its end and returns None
prompt_valid_check_call(prompt, data_dict) ==
    LET missing == missing_keys(prompt, data_dict)
    IN  IF missing # <<>>
        THEN [error |-> "ValueError", missing |-> missing, returned |-> <<>>]
        ELSE [error |-> "none", missing |-> <<>>, returned |-> << None >>]

PromptValidCheck ==
    /\ last.op = "none"
    /\ LET r == prompt_valid_check_call(last.prompt, last.data_dict)
       IN  last' = [last EXCEPT !.op = "prompt_valid_check", !.error = r.error,
                                !.missing = r.missing, !.returned = r.returned]
    /\ UNCHANGED <<doctor_agent, simulation, process, client_vars, sim_vars, data_vars>>

\* a prompt and a data_dict, before the call
CheckInit ==
    /\ doctor_agent = <<>>
    /\ simulation = <<>>
    /\ process = <<>>
    /\ last \in {[op |-> "none", prompt |-> p, data_dict |-> d, error |-> "none",
                   missing |-> <<>>, returned |-> <<>>] : p \in Prompts, d \in DataDicts}

InitCheck == ClientAbsent /\ SimAbsent /\ DataAbsent /\ CheckInit

NextCheck == PromptValidCheck

SpecCheck == InitCheck /\ [][NextCheck]_vars

----------------------------------------------------------------------------
(* SpecCtor: EDSimulation / OPSimulation construction *)

\* the attributes __init__ has set on the controller when _init_termination_checker runs
controller_attributes(k) ==
    {"patient_agent", IF k = "ED" THEN "doctor_agent" ELSE "admin_staff_agent",
     "max_inferences", "current_inference", "enable_llm_termination_check",
     "termination_checker"}

\* the else branch: raise ValueError(colorstr("red", f"Unsupported model: {self.model}. ..."))
\* the message is evaluated first, and with it the attribute self.model
unsupported_error(k) ==
    IF "model" \in controller_attributes(k) THEN "ValueError" ELSE "AttributeError"

\* a choice that tests "gpt" before "gemini"
select_checker_client_gpt_first(termination_checker, use_azure, use_vertex) ==
    IF contains(gpt, lower(termination_checker))
    THEN IF use_azure THEN "GPTAzureClient" ELSE "GPTClient"
    ELSE IF contains(gemini, lower(termination_checker))
    THEN IF use_vertex THEN "GeminiVertexClient" ELSE "GeminiClient"
    ELSE Unsupported

\* the adapter class _init_termination_checker chooses
select_checker_client(termination_checker, use_azure, use_vertex) ==
    IF contains(gemini, lower(termination_checker))
    THEN IF use_vertex THEN "GeminiVertexClient" ELSE "GeminiClient"
    ELSE IF contains(gpt, lower(termination_checker))
    THEN IF use_azure THEN "GPTAzureClient" ELSE "GPTClient"
    ELSE Unsupported

\* the termination prompt files on disk, by path
CheckerPromptFiles == [p \in {"checker.txt"} |-> termination_checker_prompt]
CheckerPromptPaths == {None, "missing.txt", "checker.txt"}

\* _init_termination_checker
init_termination_checker(c, proc) ==
    LET cls == select_checker_client(c.termination_checker, c.use_azure, c.use_vertex)
        env == IF cls = Unsupported THEN no_client(proc)
               ELSE construct_client(cls, c.api_key, c.azure_endpoint, proc)
        err == IF cls = Unsupported THEN unsupported_error(c.kind)
               ELSE IF Truthy(c.prompt_path) /\ c.prompt_path \notin DOMAIN CheckerPromptFiles
               THEN "FileNotFoundError"
               ELSE "none"
    IN  [error |-> err, created |-> IF cls = Unsupported THEN <<>> ELSE << cls >>, env |-> env]

\* the parameters build_prompt declares besides self
doctor_build_prompt_params == << "system_prompt_template" >>
staff_build_prompt_params == << "system_prompt_template" >>
build_prompt_params(k) ==
    IF k = "ED" THEN doctor_build_prompt_params ELSE staff_build_prompt_params

\* the arguments _sanity_check passes: self.doctor_agent.build_prompt()
sanity_check_build_prompt_args == <<>>

\* binding a call's positional arguments to the declared parameters (none has a default)
call_error(params, args) == IF Len(args) # Len(params) THEN "TypeError" ELSE "none"

StaffBudgets == {1, 2}
ControllerBase(k) ==
    [kind |-> k, max_inferences |-> 1, enable_llm_termination_check |-> FALSE,
     termination_checker |-> M_gemini, prompt_path |-> None, api_key |-> None,
     use_azure |-> FALSE, use_vertex |-> FALSE, azure_endpoint |-> None,
     staff_max_inferences |-> 1]
ControllerArgs ==
    {[ControllerBase("ED") EXCEPT !.max_inferences = b] : b \in Budgets}
    \cup {[ControllerBase("OP") EXCEPT !.max_inferences = b, !.staff_max_inferences = s] :
         b \in Budgets, s \in StaffBudgets}
    \cup {[ControllerBase(k) EXCEPT !.enable_llm_termination_check = TRUE,
              !.termination_checker = m, !.prompt_path = p] :
         k \in {"ED", "OP"}, m \in {M_gemini, M_GPT, M_other}, p \in CheckerPromptPaths}
    \cup {[ControllerBase(k) EXCEPT !.enable_llm_termination_check = TRUE,
              !.termination_checker = M_gemini, !.api_key = key, !.use_vertex = vx] :
         k \in {"ED", "OP"}, key \in {None, "K1"}, vx \in BOOLEAN}
    \cup {[ControllerBase(k) EXCEPT !.enable_llm_termination_check = TRUE,
              !.termination_checker = M_GPT, !.api_key = key, !.use_azure = az,
              !.azure_endpoint = ep] :
         k \in {"ED", "OP"}, key \in {None, "K1"}, az \in BOOLEAN, ep \in {None, "E1"}}
    \cup {[ControllerBase(k) EXCEPT !.enable_llm_termination_check = TRUE,
              !.termination_checker = m, !.use_azure = az, !.use_vertex = vx] :
         k \in {"ED", "OP"}, m \in {M_gemini, M_GPT, M_both}, az \in BOOLEAN, vx \in BOOLEAN}
    \cup {[ControllerBase(k) EXCEPT !.termination_checker = m, !.prompt_path = p,
              !.use_azure = az, !.use_vertex = vx] :
         k \in {"ED", "OP"}, m \in {M_other, M_both}, p \in {None, "missing.txt"},
         az \in BOOLEAN, vx \in BOOLEAN}

\* EDSimulation.__init__ / OPSimulation.__init__, _sanity_check included
ControllerInit(c) ==
    /\ c.kind = "ED" => doctor_agent # <<>>
    /\ LET chk == IF c.enable_llm_termination_check
                  THEN init_termination_checker(c, process)
                  ELSE [error |-> "none", created |-> <<>>, env |-> no_client(process)]
           agent_budget == IF c.kind = "ED" THEN doctor_agent[1].max_inferences
                           ELSE c.staff_max_inferences
           mismatch == chk.error = "none" /\ ~(agent_budget = c.max_inferences)
           err == IF chk.error # "none" THEN chk.error
                  ELSE IF mismatch
                  THEN call_error(build_prompt_params(c.kind), sanity_check_build_prompt_args)
                  ELSE "none"
       IN  /\ process' = chk.env.process
           /\ doctor_agent' =
                 IF c.kind = "ED" /\ mismatch
                 THEN << [doctor_agent[1] EXCEPT !.max_inferences = c.max_inferences] >>
                 ELSE doctor_agent
           /\ simulation' =
                 IF err # "none" THEN <<>>
                 ELSE << [kind |-> c.kind, max_inferences |-> c.max_inferences,
                          current_inference |-> 0,
                          enable_llm_termination_check |-> c.enable_llm_termination_check,
                          termination_checker |-> c.termination_checker,
                          termination_checker_client |-> chk.created,
                          agent_max_inferences |->
                              IF mismatch THEN c.max_inferences ELSE agent_budget] >>
           /\ last' = [op |-> IF c.kind = "ED" THEN "EDSimulation" ELSE "OPSimulation",
                       args |-> c, error |-> err, set_seed_calls |-> <<>>,
                       created |-> chk.created, prompt_built |-> FALSE,
                       dotenv_loads |-> chk.env.dotenv_loads,
                       environ_reads |-> chk.env.environ_reads,
                       api_key |-> chk.env.api_key,
                       azure_endpoint |-> chk.env.azure_endpoint,
                       agent_budget_before |-> agent_budget]
    /\ UNCHANGED <<client_vars, sim_vars, data_vars>>

\* the DoctorAgent objects a controller is constructed over
CtorDoctorArgs == {[DoctorBase EXCEPT !.max_inferences = b] : b \in Budgets}

\* a process holding a constructed DoctorAgent, before any controller is constructed
CtorInit ==
    /\ doctor_agent \in
           {<< doctor_object(a, select_client(a.model),
                  build_prompt(T_default, a.max_inferences, 0, top_k_diagnosis).text,
                  T_default) >> : a \in CtorDoctorArgs}
    /\ simulation = <<>>
    /\ process \in {[environ |-> FromEnviron, dotenv |-> d, seed |-> NoSeed] :
                       d \in {NoVars, FromDotenv}}
    /\ last = LastInit

InitCtor == ClientAbsent /\ SimAbsent /\ DataAbsent /\ CtorInit

NextCtor ==
    \/ \E c \in ControllerArgs : ControllerInit(c)

SpecCtor == InitCtor /\ [][NextCtor]_vars


----------------------------------------------------------------------------
(* SpecData: DatasetManager.download *)

Modes == {"all", "profile", "bogus"}
Usernames == {None, "user"}
Passwords == {None, "secret"}
DatasetVersions == {"1.0.0", "2.0.0"}
\* names the mirrored directory may hold
Items == {"patient_profile.json", "records", "temp_download"}
ToolOutcomes == {"ok", "nonzero", "not installed"}

\* a download() call that has not started
DlInit ==
    [pc |-> "idle", mode |-> "none", username |-> None, password |-> None,
     dataset_version |-> "none", prompts |-> 0, entered_all |-> FALSE, mkdirs |-> 0,
     tool_runs |-> 0, tool |-> "none", source_found |-> "not looked up",
     save_before |-> {}, todo |-> {}, moved |-> 0, error |-> "none"]

\* the prompts download() issues: input() and getpass.getpass() for what is None
prompts_needed(username, password) ==
    (IF username = None THEN 1 ELSE 0) + (IF password = None THEN 1 ELSE 0)

\* unknown modes, were they taken for the default mode
dispatch_unknown_as_profile(mode) ==
    IF mode = "all" THEN "mkdir" ELSE "profile"

\* "if mode == "all": ... elif mode == "profile": ... else: raise ValueError"
dispatch(mode) ==
    IF mode = "all" THEN "mkdir"
    ELSE IF mode = "profile" THEN "profile"
    ELSE "raise"

\* a relocation that takes a missing source path for an empty one
source_path_error_ignored(exists) == "none"

\* _move_files: "if not source_path.exists(): raise FileNotFoundError(...)"
source_path_error(exists) == IF exists THEN "none" ELSE "FileNotFoundError"

\* a cleanup placed after the relocation instead of in a finally block
cleanup_runs_on_success_only(error) == error = "none"

\* "finally:" the cleanup block runs however the try block was left
cleanup_runs(error) == TRUE

\* the temporary directory deleted with all it holds
without_temp(f) == [f EXCEPT !.temp = FALSE, !.source = FALSE, !.nested = {}]

\* download(username, password, dataset_version, mode) is called
Download(username, password, dataset_version, mode) ==
    /\ dl.pc \in {"idle", "done"}
    /\ dl' = [DlInit EXCEPT !.pc = "credentials", !.mode = mode, !.username = username,
                            !.password = password, !.dataset_version = dataset_version,
                            !.save_before = fs.save]
    /\ UNCHANGED <<fs, client_vars, sim_vars, ctor_vars>>

\* "if username is None: input(...)", "if password is None: getpass.getpass(...)"
Credentials(outcome) ==
    /\ dl.pc = "credentials"
    /\ outcome \in {"ok", "raises"}
    /\ LET n == prompts_needed(dl.username, dl.password)
       IN  /\ outcome = "raises" => n > 0
           /\ dl' = IF outcome = "ok"
                    THEN [dl EXCEPT !.pc = "dispatch", !.prompts = n]
                    ELSE [dl EXCEPT !.pc = "done", !.prompts = 1, !.error = "EOFError"]
    /\ UNCHANGED <<fs, client_vars, sim_vars, ctor_vars>>

\* the dispatch on mode
Dispatch ==
    /\ dl.pc = "dispatch"
    /\ dl' = IF dispatch(dl.mode) = "raise"
             THEN [dl EXCEPT !.pc = "done", !.error = "ValueError"]
             ELSE [dl EXCEPT !.pc = dispatch(dl.mode),
                             !.entered_all = dispatch(dl.mode) = "mkdir"]
    /\ UNCHANGED <<fs, client_vars, sim_vars, ctor_vars>>

\* _download_all: temp_dir.mkdir(parents=True, exist_ok=True), before the try block
Mkdir(outcome) ==
    /\ dl.pc = "mkdir"
    /\ outcome \in {"ok", "raises"}
    /\ outcome = "raises" => ~fs.temp
    /\ IF outcome = "ok"
       THEN /\ fs' = [fs EXCEPT !.temp = TRUE]
            /\ dl' = [dl EXCEPT !.pc = "wget", !.mkdirs = @ + 1]
       ELSE /\ dl' = [dl EXCEPT !.pc = "done", !.mkdirs = @ + 1, !.error = "PermissionError"]
            /\ UNCHANGED fs
    /\ UNCHANGED <<client_vars, sim_vars, ctor_vars>>

\* _download_all: subprocess.run(["wget", "-r", ...], check=True, ...)
WgetAll(outcome, source, nested) ==
    /\ dl.pc = "wget"
    /\ outcome \in ToolOutcomes
    /\ source \in BOOLEAN
    /\ nested \in SUBSET Items
    /\ ~source => nested = {}
    /\ outcome = "not installed" => (source = fs.source /\ nested = fs.nested)
    /\ fs' = [fs EXCEPT !.source = source, !.nested = nested]
    /\ dl' = [dl EXCEPT !.tool_runs = @ + 1, !.tool = outcome,
                        !.pc = IF outcome = "ok" THEN "move" ELSE "finally",
                        !.error = CASE outcome = "ok" -> "none"
                                    [] outcome = "nonzero" -> "CalledProcessError"
                                    [] OTHER -> "FileNotFoundError"]
    /\ UNCHANGED <<client_vars, sim_vars, ctor_vars>>

\* _move_files: the source path is looked up and its entries are listed
MoveFiles ==
    /\ dl.pc = "move"
    /\ LET found == IF fs.source THEN "yes" ELSE "no"
       IN  dl' = IF source_path_error(fs.source) # "none"
                 THEN [dl EXCEPT !.pc = "finally", !.source_found = found,
                                 !.error = source_path_error(fs.source)]
                 ELSE [dl EXCEPT !.pc = "moving", !.source_found = found,
                                 !.todo = fs.nested]
    /\ UNCHANGED <<fs, client_vars, sim_vars, ctor_vars>>

\* _move_files: one iteration of "for item in source_path.iterdir()"
MoveItem(item, outcome) ==
    /\ dl.pc = "moving"
    /\ item \in dl.todo
    /\ outcome \in {"ok", "raises"}
    /\ IF item = "temp_download"
       THEN \* dest is the temporary directory itself: rmtree(dest) deletes the source
            \* with it and shutil.move finds nothing to move
            /\ fs' = without_temp(fs)
            /\ dl' = [dl EXCEPT !.pc = "finally", !.error = "FileNotFoundError"]
       ELSE IF outcome = "ok"
       THEN /\ fs' = [fs EXCEPT !.save = @ \cup {item}, !.nested = @ \ {item}]
            /\ dl' = [dl EXCEPT !.todo = @ \ {item}, !.moved = @ + 1]
       ELSE \* an existing dest was removed, then shutil.move raised
            /\ fs' = [fs EXCEPT !.save = @ \ {item}]
            /\ dl' = [dl EXCEPT !.pc = "finally", !.error = "OSError"]
    /\ UNCHANGED <<client_vars, sim_vars, ctor_vars>>

\* _move_files returns: every entry was moved
MoveDone ==
    /\ dl.pc = "moving"
    /\ dl.todo = {}
    /\ dl' = [dl EXCEPT !.pc = "finally"]
    /\ UNCHANGED <<fs, client_vars, sim_vars, ctor_vars>>

\* "finally: if temp_dir.exists(): shutil.rmtree(temp_dir)", then return or re-raise
Finally ==
    /\ dl.pc = "finally"
    /\ fs' = IF cleanup_runs(dl.error) /\ fs.temp THEN without_temp(fs) ELSE fs
    /\ dl' = [dl EXCEPT !.pc = "done"]
    /\ UNCHANGED <<client_vars, sim_vars, ctor_vars>>

\* _download_profile: subprocess.run(["wget", ..., "-O", file_path, file_url], check=True, ...)
WgetProfile(outcome) ==
    /\ dl.pc = "profile"
    /\ outcome \in ToolOutcomes
    /\ fs' = IF outcome = "not installed" THEN fs
             ELSE [fs EXCEPT !.save = @ \cup {"patient_profile.json"}]
    /\ dl' = [dl EXCEPT !.tool_runs = @ + 1, !.pc = "done",
                        !.error = CASE outcome = "ok" -> "none"
                                    [] outcome = "nonzero" -> "CalledProcessError"
                                    [] OTHER -> "FileNotFoundError"]
    /\ UNCHANGED <<client_vars, sim_vars, ctor_vars>>

\* DatasetManager(save_path): save_path exists; a temp_download left behind by an
\* interrupted earlier run may be there
DataInit ==
    /\ fs \in {[temp |-> t, source |-> FALSE, nested |-> {}, save |-> s] :
                  t \in BOOLEAN, s \in {{}, {"records"}}}
    /\ dl = DlInit

InitData == ClientAbsent /\ SimAbsent /\ CtorAbsent /\ DataInit

NextData ==
    \/ \E u \in Usernames, p \in Passwords, v \in DatasetVersions, m \in Modes :
          Download(u, p, v, m)
    \/ \E out \in {"ok", "raises"} : Credentials(out)
    \/ Dispatch
    \/ \E out \in {"ok", "raises"} : Mkdir(out)
    \/ \E out \in ToolOutcomes, src \in BOOLEAN, n \in SUBSET Items : WgetAll(out, src, n)
    \/ MoveFiles
    \/ \E item \in Items, out \in {"ok", "raises"} : MoveItem(item, out)
    \/ MoveDone
    \/ Finally
    \/ \E out \in ToolOutcomes : WgetProfile(out)

SpecData == InitData /\ [][NextData]_vars

----------------------------------------------------------------------------
(* Claims about the client adapters, checked under Spec *)

SystemEntries(h) == SelectSeq(h, IsSystem)

\* the system prompts the session holds
SessionPrompts ==
    IF adapter \in GPTAdapters
    THEN [i \in 1..Len(SystemEntries(histories)) |-> SystemEntries(histories)[i].content.text]
    ELSE IF chat = <<>> THEN <<>> ELSE << chat[1].system_instruction >>

\* C1: a session holds at most one system prompt. On GPTClient/GPTAzureClient the
\* history never holds more than one system entry, and a multi-turn call that
\* carries a non-empty system prompt while the history already holds one leaves the
\* system entries as they were; on GeminiClient a multi-turn call on an existing
\* chat session leaves its system instruction and options as they were.
C1_OneSystemPrompt ==
    [][ /\ adapter \in GPTAdapters => Len(SystemEntries(histories')) <= 1
        /\ ( /\ adapter \in GPTAdapters
             /\ obs'.op = "multi"
             /\ obs'.system_prompt \notin {None, ""}
             /\ SystemEntries(histories) # <<>> )
           => SystemEntries(histories') = SystemEntries(histories)
        /\ (adapter = "GeminiClient" /\ obs'.op = "multi" /\ chat # <<>>)
           => /\ chat' # <<>>
              /\ chat'[1].system_instruction = chat[1].system_instruction
              /\ chat'[1].options = chat[1].options
      ]_vars

\* a second, different system prompt was passed to a GPT session that holds one
C1_Witness ==
    /\ adapter \in GPTAdapters
    /\ obs.op = "multi"
    /\ seg.calls >= 2
    /\ obs.system_prompt = "S2"
    /\ SessionPrompts = << "S1" >>

C3_SingleTurnStartsEmpty ==
    obs.op = "single" =>
        LET user == [role |-> "user", content |-> [form |-> "parts", text |-> obs.user_prompt]]
            system == IF obs.system_prompt \in {None, ""} THEN <<>>
                      ELSE << [role |-> "system",
                               content |-> [form |-> "str", text |-> obs.system_prompt]] >>
        IN  /\ adapter \in GPTAdapters =>
                /\ obs.sent
                /\ obs.messages = system \o << user >>
                /\ histories = <<>>
                /\ already_set = FALSE
            /\ adapter = "GeminiClient" =>
                /\ obs.sent => /\ obs.messages = << user >>
                               /\ obs.system_instruction = obs.system_prompt
                /\ chat = <<>>

\* a single-turn call with a system prompt returned on a GPT session that held history
C3_Witness ==
    /\ adapter \in GPTAdapters
    /\ obs.op = "single"
    /\ obs.pre_len >= 3
    /\ obs.system_prompt = "S2"
    /\ obs.outcome = "returned"
    /\ Len(obs.messages) = 2

ExpectedRoles(k) ==
    [i \in 1..(1 + 2 * k) |->
        IF i = 1 THEN "system" ELSE IF i % 2 = 0 THEN "user" ELSE "assistant"]

\* C4: a multi-turn call that returns on GPTClient/GPTAzureClient appends, in this
\* order, a system entry (only if a system prompt is supplied and the history holds
\* none), the user entry and the assistant entry holding the reply, and the request
\* it sent is the accumulated history up to and including the user entry. After k
\* such calls with the same system prompt from a fresh or fully reset adapter the
\* roles are system, user, assistant, ..., user, assistant.
C4_MultiTurnAppends ==
    [][ /\ (adapter \in GPTAdapters /\ obs'.op = "multi" /\ obs'.outcome = "returned")
           => LET system == IF obs'.system_prompt \notin {None, ""}
                               /\ SystemEntries(histories) = <<>>
                            THEN << [role |-> "system",
                                     content |-> [form |-> "str", text |-> obs'.system_prompt]] >>
                            ELSE <<>>
                  user == [role |-> "user",
                           content |-> [form |-> "parts", text |-> obs'.user_prompt]]
                  request == (histories \o system) \o << user >>
              IN  /\ obs'.messages = request
                  /\ histories' = Append(request,
                        [role |-> "assistant", content |-> [form |-> "str", text |-> obs'.reply]])
        /\ ( /\ adapter \in GPTAdapters
             /\ seg'.start \in {"fresh", "full"}
             /\ seg'.calls >= 1
             /\ seg'.uniform
             /\ seg'.first_sys \notin {None, ""} )
           => [i \in 1..Len(histories') |-> histories'[i].role] = ExpectedRoles(seg'.calls)
      ]_vars

\* two calls with the same system prompt returned on a fresh GPT adapter
C4_Witness ==
    /\ adapter \in GPTAdapters
    /\ seg.start = "fresh"
    /\ seg.uniform
    /\ seg.calls >= 2
    /\ seg.first_sys = "S1"
    /\ Len(histories) = 1 + 2 * seg.calls
    /\ histories[2].content.text # histories[4].content.text

\* C5: on GPTClient/GPTAzureClient reset_history(keep_system_prompt=True) leaves
\* the one-element list holding the first system entry of the prior history (the
\* empty list if there was none), and reset_history(keep_system_prompt=False)
\* leaves the empty list.
C5_ResetHistory ==
    [][ (adapter \in GPTAdapters /\ obs'.op = "reset")
        => histories' = IF obs'.keep /\ SystemEntries(histories) # <<>>
                        THEN << SystemEntries(histories)[1] >>
                        ELSE <<>>
      ]_vars

\* [system S1, user, assistant] was reset to [system S1]
C5_Witness ==
    /\ adapter \in GPTAdapters
    /\ obs.op = "reset"
    /\ obs.keep
    /\ obs.pre_len = 3
    /\ histories = << [role |-> "system", content |-> [form |-> "str", text |-> "S1"]] >>

----------------------------------------------------------------------------
(* Claims about simulate, checked under SpecSim *)

DrivenRole == IF kind = "ED" THEN "Doctor" ELSE "Staff"

\* the Doctor/Staff reply of iteration i (1-based), once appended
ReplyOf(i) == dialog_history[1 + 2 * i].content

\* the checker invocations made in iteration i
CheckerCallsOf(i) == SelectSeq(run.checker_calls, LAMBDA c : c.idx = i - 1)

\* iteration i has passed its termination checks
Settled(i) == i < run.completed \/ pc \notin {"detect", "checker"}

\* the loop was left by a break in iteration i: no later iteration, no pause after it
BrokeAt(i) == run.started = i /\ run.sleeps = i - 1 /\ pc \in {"completed", "returned"}

\* the checker replies that equal "Y" once trimmed and upper-cased
YesReplies == { << "Y" >>, << "y" >>, << " ", "y", "\n" >> }

\* C6: in every iteration, once the Doctor/Staff reply is appended: if the
\* deterministic detector flags it the loop stops and the checker is not invoked for
\* it; otherwise, with the LLM checker enabled, the checker is invoked exactly once,
\* single-turn, on the template formatted with that reply, and the loop stops iff its
\* reply, trimmed and upper-cased, is "Y"; with the checker disabled it is not
\* invoked and the loop does not stop there.
C6_TerminationChecks ==
    pc # "idle" =>
        \A i \in 1..run.completed :
            Settled(i) =>
                LET calls == CheckerCallsOf(i) IN
                IF ReplyOf(i) = ConcludingReply
                THEN calls = <<>> /\ BrokeAt(i)
                ELSE IF enable_llm_termination_check
                THEN /\ Len(calls) = 1
                     /\ calls[1].using_multi_turn = FALSE
                     /\ calls[1].user_prompt =
                            (<< "<checker prompt> " >> \o ReplyOf(i)) \o << " <Y or N?>" >>
                     /\ calls[1].reply = Raises => pc = "raised"
                     /\ calls[1].reply # Raises => (BrokeAt(i) <=> calls[1].reply \in YesReplies)
                ELSE calls = <<>> /\ ~BrokeAt(i)

\* a run whose second iteration was ended by the checker answering " y\n"
C6_Witness ==
    /\ pc = "returned"
    /\ enable_llm_termination_check
    /\ run.stopped_by = "checker"
    /\ run.completed = 2
    /\ Len(run.checker_calls) = 2
    /\ run.checker_calls[1].reply = << "N" >>
    /\ run.checker_calls[2].reply = << " ", "y", "\n" >>

\* d starts with the greeting entry and then alternates Patient, Doctor/Staff
Alternates(d) ==
    /\ Len(d) >= 1
    /\ d[1] = [role |-> DrivenRole,
               content |-> IF kind = "ED" THEN << "Hello, how can I help you?" >>
                           ELSE << "<staff_greet>" >>]
    /\ \A i \in 2..Len(d) : d[i].role = IF i % 2 = 0 THEN "Patient" ELSE DrivenRole

\* the transcript in the value handed to the caller
ReturnedDialog == IF kind = "ED" THEN returned[1] ELSE returned[1].dialog_history

C8_EDStopsAtFirstFlaggedReply ==
    ( /\ kind = "ED"
      /\ pc \in {"returned", "raised"}
      /\ run.first_answer = ConcludingReply )
    => /\ pc = "returned"
       /\ Len(ReturnedDialog) = 3

FinalInstruction ==
    "\nThis is the final turn. Now, you must provide your top5 differential diagnosis."

HasInstruction(t) == \E i \in 1..Len(t) : t[i] = FinalInstruction

\* C10: the j-th user prompt given to the Doctor/Staff agent is the content of the
\* Patient entry just appended, followed by the final-turn instruction exactly when
\* the iteration index j - 1 is max_inferences - 1; so the instruction is sent at
\* most once per run and never in a run that ends earlier, and no transcript entry
\* holds it.
C10_FinalTurnInstruction ==
    pc # "idle" =>
        /\ \A j \in 1..Len(run.agent_prompts) :
              /\ dialog_history[2 * j].role = "Patient"
              /\ run.agent_prompts[j] =
                    IF j - 1 = max_inferences - 1
                    THEN dialog_history[2 * j].content \o << FinalInstruction >>
                    ELSE dialog_history[2 * j].content
        /\ Cardinality({j \in 1..Len(run.agent_prompts) :
                            HasInstruction(run.agent_prompts[j])}) <= 1
        /\ \A i \in 1..Len(dialog_history) : ~HasInstruction(dialog_history[i].content)

\* the last of three iterations carried the instruction, and the run returned
C10_Witness ==
    /\ pc = "returned"
    /\ max_inferences >= 2
    /\ Len(run.agent_prompts) = max_inferences
    /\ HasInstruction(run.agent_prompts[max_inferences])
    /\ ~HasInstruction(run.agent_prompts[1])

----------------------------------------------------------------------------
(* Claims about error propagation and construction *)

\* C12: when a Patient, Doctor/Staff or checker call raises during simulate, simulate
\* raises that error at once: the run is left with nothing returned, no pause taken
\* and the transcript not handed out, and no further call of that run follows (the
\* only step after it is a new simulate call).
C12_ErrorsPropagate ==
    [][ /\ (run'.error # run.error /\ run'.error # "none") =>
             /\ pc' = "raised"
             /\ returned' = <<>>
             /\ run'.sleeps = run.sleeps
             /\ Len(run'.checker_calls) <= Len(run.checker_calls) + 1
             /\ dialog_history' = dialog_history
        /\ pc = "raised" => (pc' = "for" /\ run' = RunInit /\ returned' = <<>>)
      ]_vars

\* a checker call raised after one full iteration had completed
C12_Witness ==
    /\ pc = "raised"
    /\ run.error = "ExternalFailure"
    /\ run.completed >= 2
    /\ Len(run.checker_calls) >= 2
    /\ returned = <<>>

Simulations == {"EDSimulation", "OPSimulation"}

\* C11: constructing an EDSimulation whose max_inferences differs from the Doctor
\* agent's completes without error, leaves the agent with the controller's
\* max_inferences, and leaves the agent's system_prompt rebuilt for that budget
\* (total_idx resolves to the controller's value).  Stated for EDSimulation with the
\* termination checker disabled and both budgets at least 1; the agent OPSimulation
\* drives is not in src/.
C11_BudgetSynchronised ==
    (/\ last.op = "EDSimulation"
     /\ ~last.args.enable_llm_termination_check
     /\ last.agent_budget_before >= 1
     /\ last.args.max_inferences >= 1
     /\ last.agent_budget_before # last.args.max_inferences)
    => /\ last.error = "none"
       /\ simulation # <<>>
       /\ doctor_agent[1].max_inferences = last.args.max_inferences
       /\ doctor_agent[1].system_prompt =
             build_prompt(doctor_agent[1].built_from, last.args.max_inferences,
                          doctor_agent[1].current_inference,
                          doctor_agent[1].top_k_diagnosis).text

\* C13: 0 <= current_inference <= max_inferences for the DoctorAgent and for the
\* controller, in every state, whatever max_inferences was configured.
C13_CurrentWithinBudget ==
    /\ doctor_agent # <<>> =>
          /\ 0 <= doctor_agent[1].current_inference
          /\ doctor_agent[1].current_inference <= doctor_agent[1].max_inferences
    /\ simulation # <<>> =>
          /\ 0 <= simulation[1].current_inference
          /\ simulation[1].current_inference <= simulation[1].max_inferences

\* C14: constructing a controller with the termination checker enabled and a checker
\* model name containing neither "gemini" nor "gpt" fails with the ValueError
\* "Unsupported model ...", and with no other kind of error.
C14_UnsupportedCheckerError ==
    (/\ last.op \in Simulations
     /\ last.args.enable_llm_termination_check
     /\ ~contains(gemini, lower(last.args.termination_checker))
     /\ ~contains(gpt, lower(last.args.termination_checker)))
    => last.error = "ValueError"

\* C15 as stated: DoctorAgent construction selects GeminiClient when the model name
\* contains "gemini", GPTClient when it contains "gpt", and fails with the Unsupported
\* error for every other name, creating no adapter and building no prompt.
C15_SelectsBySubstring ==
    last.op = "DoctorAgent" =>
        /\ contains(gemini, last.args.model) => last.created = << "GeminiClient" >>
        /\ contains(gpt, last.args.model) => last.created = << "GPTClient" >>
        /\ (~contains(gemini, last.args.model) /\ ~contains(gpt, last.args.model)) =>
              /\ last.error = "ValueError"
              /\ last.created = <<>>
              /\ ~last.prompt_built
              /\ doctor_agent = <<>>

\* C15 amended: the name is matched lower-cased, "gemini" first: GeminiClient when the
\* lower-cased name contains "gemini", GPTClient when it contains "gpt" and not
\* "gemini", and the Unsupported error (no adapter created, no prompt built, no
\* agent) for every other name.
C15_SelectsByLowercasedSubstring ==
    last.op = "DoctorAgent" =>
        LET name == lower(last.args.model)
        IN  /\ contains(gemini, name) => last.created = << "GeminiClient" >>
            /\ (contains(gpt, name) /\ ~contains(gemini, name)) =>
                  last.created = << "GPTClient" >>
            /\ (~contains(gemini, name) /\ ~contains(gpt, name)) =>
                  /\ last.error = "ValueError"
                  /\ last.created = <<>>
                  /\ ~last.prompt_built
                  /\ doctor_agent = <<>>

\* an upper-case "GPT-4" selected GPTClient and the agent was constructed
C15_Witness ==
    /\ last.op = "DoctorAgent"
    /\ last.args.model = M_GPT
    /\ last.created = << "GPTClient" >>
    /\ doctor_agent # <<>>
    /\ doctor_agent[1].client = "GPTClient"

\* C16: build_prompt on a template with a placeholder outside {total_idx, curr_idx,
\* remain_idx, top_k_diagnosis, age, gender, arrival_transport} fails with the error
\* prompt_valid_check raises for it (InvalidInput, a ValueError), and no partially
\* resolved text is returned.
C16_UnknownPlaceholderInvalidInput ==
    LET tmpl == init_prompt(last.args.system_prompt_path)
        data == prompt_data(last.args.max_inferences, 0, top_k_diagnosis)
    IN  (/\ last.op = "DoctorAgent"
         /\ last.created # <<>>
         /\ tmpl.error = "none"
         /\ prompt_valid_check(tmpl.template, data) # "none")
        => /\ last.error = prompt_valid_check(tmpl.template, data)
           /\ ~last.prompt_built
           /\ doctor_agent = <<>>

\* C17: DoctorAgent construction calls set_seed with the configured random_seed
\* whenever one is given, 0 included, and does not call it when none is given.
C17_SeedApplied ==
    last.op = "DoctorAgent" =>
        IF last.args.random_seed # NoSeed
        THEN /\ last.set_seed_calls = << last.args.random_seed >>
             /\ process.seed = last.args.random_seed
        ELSE last.set_seed_calls = <<>>

\* C20 as stated: an adapter constructed with a non-empty api_key never loads the
\* .env file nor reads os.environ and uses exactly the supplied key, for GeminiClient,
\* GPTClient and, whatever its other arguments, GPTAzureClient.
C20_ExplicitKeyReadsNothing ==
    (last.op \in Adapters /\ Truthy(last.args.api_key))
    => /\ last.dotenv_loads = 0
       /\ last.environ_reads = {}
       /\ last.api_key = last.args.api_key

\* C20 amended: an adapter constructed with a non-empty api_key uses exactly the
\* supplied key; GeminiClient and GPTClient, and GPTAzureClient given a non-empty
\* azure_endpoint as well, then load no .env file, read no environment variable and
\* leave the process environment as it was; GPTAzureClient given no azure_endpoint
\* loads the .env file once (overriding) and reads AZURE_OPENAI_ENDPOINT only.
C20_ExplicitArgumentsReadNothing ==
    [][ (last'.op \in Adapters /\ Truthy(last'.args.api_key)) =>
           /\ last'.api_key = last'.args.api_key
           /\ (last'.op # "GPTAzureClient" \/ Truthy(last'.args.azure_endpoint)) =>
                 /\ last'.dotenv_loads = 0
                 /\ last'.environ_reads = {}
                 /\ process' = process
           /\ (last'.op = "GPTAzureClient" /\ ~Truthy(last'.args.azure_endpoint)) =>
                 /\ last'.dotenv_loads = 1
                 /\ last'.environ_reads = {"AZURE_OPENAI_ENDPOINT"}
                 /\ process' = load_dotenv(process)
      ]_vars

\* GPTAzureClient given a key and an endpoint while both os.environ and .env hold
\* other values: neither was read
C20_Witness ==
    /\ last.op = "GPTAzureClient"
    /\ last.args.api_key = "K1"
    /\ last.args.azure_endpoint = "E1"
    /\ process.environ = FromEnviron
    /\ process.dotenv = FromDotenv
    /\ last.api_key = "K1"
    /\ last.azure_endpoint = "E1"
    /\ last.environ_reads = {}

\* C18: once download(mode="all") has entered _download_all and finished - the tool
\* succeeded, exited non-zero or is not installed, the expected source path is
\* missing, or relocation failed part-way - {save_path}/temp_download does not exist.
C18_TempDirRemoved ==
    (dl.pc = "done" /\ dl.entered_all) => ~fs.temp

\* relocation failed after one entry had been moved, and the directory is gone
C18_Witness ==
    /\ dl.pc = "done"
    /\ dl.entered_all
    /\ dl.error = "OSError"
    /\ dl.moved >= 1
    /\ dl.tool_runs = 1
    /\ ~fs.temp

C28_MissingSourceNotFound ==
    (dl.mode = "all" /\ dl.tool = "ok" /\ dl.source_found = "no") =>
        /\ dl.moved = 0
        /\ fs.save = dl.save_before
        /\ dl.error = "FileNotFoundError"
        /\ dl.pc \in {"finally", "done"}
        /\ dl.pc = "done" => ~fs.temp

\* the tool succeeded without producing the nested path, next to an existing file
C28_Witness ==
    /\ dl.pc = "done"
    /\ dl.mode = "all"
    /\ dl.tool = "ok"
    /\ dl.tool_runs = 1
    /\ dl.source_found = "no"
    /\ dl.error = "FileNotFoundError"
    /\ dl.save_before = {"records"}
    /\ fs.save = {"records"}
    /\ ~fs.temp

----------------------------------------------------------------------------
(* Further claims about the client adapters, checked under Spec *)

SystemEntry(sp) == [role |-> "system", content |-> [form |-> "str", text |-> sp]]

\* C27: on GPTClient/GPTAzureClient, reset_history(keep_system_prompt=True) on a
\* session whose system prompt was set leaves the already-set flag true, the first-
\* turn flag set and the system entry alone in the history; from then until the next
\* reset or single-turn call, a multi-turn call carrying a non-empty system prompt
\* adds no system entry and leaves the retained entry first, and the warning is
\* logged by the first such call and by no later one.
\* reset_history(keep_system_prompt=False) clears the flag, and the next multi-turn
\* call carrying a non-empty system prompt puts that prompt in the history.
C27_KeptPromptStaysFixed ==
    [][ /\ (adapter \in GPTAdapters /\ obs'.op = "reset" /\ obs'.keep /\ already_set)
           => /\ already_set'
              /\ first_turn'
              /\ histories' = << SystemEntries(histories)[1] >>
        /\ ( /\ adapter \in GPTAdapters
             /\ seg.start = "keep"
             /\ already_set
             /\ histories # <<>> /\ histories[1].role = "system"
             /\ obs'.op = "multi"
             /\ obs'.system_prompt \notin {None, ""} )
           => /\ SystemEntries(histories') = SystemEntries(histories)
              /\ histories'[1] = histories[1]
              /\ histories'[1].role = "system"
              /\ obs'.warned <=> seg.warnings = 0
        /\ (adapter \in GPTAdapters /\ obs'.op = "reset" /\ ~obs'.keep)
           => ~already_set' /\ first_turn' /\ histories' = <<>>
        /\ ( /\ adapter \in GPTAdapters
             /\ seg.start = "full"
             /\ ~already_set
             /\ obs'.op = "multi"
             /\ obs'.system_prompt \notin {None, ""} )
           => /\ SystemEntries(histories') = << SystemEntry(obs'.system_prompt) >>
              /\ already_set'
              /\ ~obs'.warned
      ]_vars

\* after a keeping reset of an S1 session, two calls carried S2: one warning, S1 first
C27_Witness ==
    /\ adapter \in GPTAdapters
    /\ seg.start = "keep"
    /\ seg.calls = 2
    /\ seg.first_sys = "S2"
    /\ seg.later_diff = 0
    /\ obs.op = "multi"
    /\ obs.system_prompt = "S2"
    /\ ~obs.warned
    /\ seg.warnings = 1
    /\ histories[1] = SystemEntry("S1")
    /\ SystemEntries(histories) = << SystemEntry("S1") >>

UserEntry(u) == [role |-> "user", content |-> [form |-> "parts", text |-> u]]

\* what a multi-turn call that raises leaves behind
FailedCallKept ==
    (adapter \in GPTAdapters /\ obs'.op = "multi" /\ obs'.outcome = "raised")
    => LET sets == ~already_set /\ obs'.system_prompt \notin {None, ""}
           system == IF sets THEN << SystemEntry(obs'.system_prompt) >> ELSE <<>>
       IN  /\ histories' = (histories \o system) \o << UserEntry(obs'.user_prompt) >>
           /\ already_set' = (already_set \/ sets)
           /\ obs'.reply = None

\* a multi-turn call that returns right after a multi-turn call that raised
ReturnedAfterRaised ==
    /\ adapter \in GPTAdapters
    /\ obs.op = "multi" /\ obs.outcome = "raised"
    /\ obs'.op = "multi" /\ obs'.outcome = "returned"

\* C29 as stated: a multi-turn call on GPTClient/GPTAzureClient whose request raises
\* leaves the history as it was sent (the prior history, the system entry if the
\* call set one, the user entry) and the already-set flag at its new value; a
\* multi-turn call that returns right after it leaves a history ending in the
\* failed call's user entry, its own user entry next to it, and the assistant entry.
C29_ConsecutiveUserEntries ==
    [][ /\ FailedCallKept
        /\ ReturnedAfterRaised
           => LET n == Len(histories')
              IN  /\ n >= 3
                  /\ histories'[n - 2] = UserEntry(obs.user_prompt)
                  /\ histories'[n - 1] = UserEntry(obs'.user_prompt)
                  /\ histories'[n].role = "assistant"
      ]_vars

\* C29, amended: a multi-turn call on GPTClient/GPTAzureClient whose request raises
\* leaves the history as it was sent and the already-set flag at its new value; a
\* multi-turn call that returns right after it appends, after the failed call's
\* user entry, a system entry if it is the call that sets the system prompt, then
\* its own user entry and the assistant entry: no assistant entry lies between the
\* two user entries, and they are adjacent unless the second call sets the prompt.
C29_FailedCallNotRolledBack ==
    [][ /\ FailedCallKept
        /\ ReturnedAfterRaised
           => LET sets == ~already_set /\ obs'.system_prompt \notin {None, ""}
                  system == IF sets THEN << SystemEntry(obs'.system_prompt) >> ELSE <<>>
                  n == Len(histories)
              IN  /\ n >= 1
                  /\ histories[n] = UserEntry(obs.user_prompt)
                  /\ SubSeq(histories', 1, n) = histories
                  /\ Len(histories') = n + Len(system) + 2
                  /\ SubSeq(histories', n + 1, n + Len(system)) = system
                  /\ histories'[n + Len(system) + 1] = UserEntry(obs'.user_prompt)
                  /\ histories'[n + Len(system) + 2].role = "assistant"
                  /\ histories'[n + Len(system) + 2].content.text = obs'.reply
      ]_vars

\* a call without a system prompt raised on a fresh adapter, and the next call,
\* carrying S1, returned: the system entry lies between the two user entries
C29_Witness ==
    /\ adapter \in GPTAdapters
    /\ seg.start = "fresh"
    /\ seg.calls = 2
    /\ ~seg.first_ok
    /\ obs.op = "multi"
    /\ obs.outcome = "returned"
    /\ already_set
    /\ [i \in 1..Len(histories) |-> histories[i].role]
           = << "user", "system", "user", "assistant" >>
    /\ histories[1].content.text # histories[3].content.text

C32_FlagIffOneSystemEntry ==
    adapter \in GPTAdapters =>
        /\ already_set <=> (Len(SystemEntries(histories)) = 1)
        /\ Len(SystemEntries(histories)) <= 1

\* a call without a system prompt raised, the next call carried S1 and raised too,
\* and a third call carrying S2 returned: the flag is set and the history holds the
\* one system entry S1 behind the first user entry
C32_Witness ==
    /\ adapter \in GPTAdapters
    /\ seg.calls = 3
    /\ seg.first_sys = None
    /\ ~seg.first_ok
    /\ obs.op = "multi"
    /\ obs.system_prompt = "S2"
    /\ obs.outcome = "returned"
    /\ already_set
    /\ Len(histories) = 5
    /\ histories[1].role = "user"
    /\ histories[2] = Msg("system", Text("S1"))
    /\ SystemEntries(histories) = << Msg("system", Text("S1")) >>

\* the system prompt a multi-turn call hands to chats.create
SuppliedInstruction(sp) == IF sp \in {None, ""} THEN None ELSE sp

\* C33: on GeminiClient, after any sequence of multi-turn calls (session creation
\* or sending may raise), single-turn calls and reset_history calls, the
\* chat-already-set flag is true exactly when a chat session exists; and a
\* multi-turn call that found no session and built one built it with the system
\* prompt it was given, without discarding it.
C33_FlagIffSession ==
    adapter = "GeminiClient" =>
        /\ already_set <=> (chat # <<>>)
        /\ (obs.op = "multi" /\ obs.pre_len = 0 /\ chat # <<>>)
           => /\ chat[1].system_instruction = SuppliedInstruction(obs.system_prompt)
              /\ ~obs.warned

\* building the session raised in a call carrying S1, and the next call, carrying
\* S2, built the session with S2 although its request then raised
C33_Witness ==
    /\ adapter = "GeminiClient"
    /\ seg.calls = 2
    /\ seg.first_sys = "S1"
    /\ ~seg.first_ok
    /\ obs.op = "multi"
    /\ obs.pre_len = 0
    /\ obs.system_prompt = "S2"
    /\ obs.outcome = "raised"
    /\ obs.sent
    /\ already_set
    /\ chat # <<>>
    /\ chat[1].system_instruction = "S2"
    /\ chat[1].turns = <<>>

----------------------------------------------------------------------------
(* A further claim about controller construction, checked under SpecCtor *)

\* the last call constructed an EDSimulation or an OPSimulation
ControllerConstructed == last.op \in {"EDSimulation", "OPSimulation"}

\* errors only _init_termination_checker raises
CheckerErrors == {"ValueError", "AttributeError", "FileNotFoundError"}

\* C31: with the LLM termination check enabled, the checker adapter a controller
\* constructs depends only on the lower-cased checker name, use_vertex and
\* use_azure: a name containing "gemini" (also one that contains "gpt" as well)
\* gives GeminiVertexClient if use_vertex, else GeminiClient, whatever use_azure
\* is; any other name containing "gpt" gives GPTAzureClient if use_azure, else
\* GPTClient, whatever use_vertex is; letter case does not matter. With the check
\* disabled no adapter is constructed, no environment is loaded for one, and
\* neither the checker name nor the prompt path can fail the construction.
C31_CheckerAdapterChoice ==
    ControllerConstructed =>
        LET a == last.args
            name == lower(a.termination_checker)
        IN  /\ (a.enable_llm_termination_check /\ contains(gemini, name))
               => last.created =
                      << IF a.use_vertex THEN "GeminiVertexClient" ELSE "GeminiClient" >>
            /\ (a.enable_llm_termination_check /\ ~contains(gemini, name)
                   /\ contains(gpt, name))
               => last.created = << IF a.use_azure THEN "GPTAzureClient" ELSE "GPTClient" >>
            /\ ~a.enable_llm_termination_check
               => /\ last.created = <<>>
                  /\ last.error \notin CheckerErrors
                  /\ last.dotenv_loads = 0
                  /\ last.environ_reads = {}
                  /\ simulation # <<>> => simulation[1].termination_checker_client = <<>>

\* a checker named "gpt-gemini" with use_azure set and use_vertex clear was given
\* the consumer Gemini adapter
C31_Witness ==
    /\ ControllerConstructed
    /\ last.args.enable_llm_termination_check
    /\ last.args.termination_checker = M_both
    /\ last.args.use_azure
    /\ ~last.args.use_vertex
    /\ last.created = << "GeminiClient" >>
    /\ last.error = "none"
    /\ simulation # <<>>
    /\ simulation[1].termination_checker_client = << "GeminiClient" >>

----------------------------------------------------------------------------
(* Further claims about simulate, checked under SpecSim and SpecSimFair *)

\* the loop of the current run was left without an error
LoopEnded == pc \in {"completed", "returned"}

\* iteration i was stopped by the detector / by the checker
DetectorFlagged(i) == ReplyOf(i) = ConcludingReply
CheckerSaidYes(i) ==
    \E j \in 1..Len(run.checker_calls) :
        run.checker_calls[j].idx = i - 1 /\ run.checker_calls[j].reply \in YesReplies

\* the three ways the loop ends
Outcome(o) ==
    CASE o = "detector" ->
            run.completed >= 1 /\ BrokeAt(run.completed) /\ DetectorFlagged(run.completed)
      [] o = "checker" ->
            run.completed >= 1 /\ BrokeAt(run.completed) /\ CheckerSaidYes(run.completed)
      [] o = "exhausted" ->
            run.started = max_inferences /\ run.sleeps = run.started
      [] OTHER -> FALSE

PatientCalled == Len(run'.patient_calls) - Len(run.patient_calls)
AgentCalled == Len(run'.agent_prompts) - Len(run.agent_prompts)
CheckerCalled == Len(run'.checker_calls) - Len(run.checker_calls)

\* C23: within a run every step makes at most one call. The Patient call of
\* iteration i is the first call of the iteration, is multi-turn, and is given the
\* content of the transcript's last entry: the greeting for i = 0, the Doctor/Staff
\* reply of iteration i - 1 afterwards. The Doctor/Staff call of iteration i is made
\* when the transcript ends with the Patient reply of iteration i. The checker call
\* of iteration i is made when the transcript ends with the Doctor/Staff reply of
\* iteration i.
C23_CallsChained ==
    [][ pc \notin {"idle", "returned", "raised"} =>
        /\ PatientCalled \in {0, 1} /\ AgentCalled \in {0, 1} /\ CheckerCalled \in {0, 1}
        /\ PatientCalled + AgentCalled + CheckerCalled <= 1
        /\ PatientCalled = 1 =>
              LET call == run'.patient_calls[Len(run'.patient_calls)]
                  i == call.idx
              IN  /\ Len(run.patient_calls) = i
                  /\ Len(run.agent_prompts) = i
                  /\ \A j \in 1..Len(run.checker_calls) : run.checker_calls[j].idx < i
                  /\ call.using_multi_turn
                  /\ Len(dialog_history) = 1 + 2 * i
                  /\ dialog_history[1 + 2 * i].role = DrivenRole
                  /\ call.user_prompt = dialog_history[1 + 2 * i].content
                  /\ i = 0 => call.user_prompt =
                                 (IF kind = "ED" THEN << "Hello, how can I help you?" >>
                                  ELSE << "<staff_greet>" >>)
        /\ AgentCalled = 1 =>
              LET i == Len(run.agent_prompts)
              IN  /\ Len(run.patient_calls) = i + 1
                  /\ Len(dialog_history) = 2 + 2 * i
                  /\ dialog_history[2 + 2 * i].role = "Patient"
        /\ CheckerCalled = 1 =>
              LET i == run'.checker_calls[Len(run'.checker_calls)].idx
              IN  /\ Len(run.patient_calls) = i + 1
                  /\ Len(run.agent_prompts) = i + 1
                  /\ Len(dialog_history) = 3 + 2 * i
                  /\ dialog_history[3 + 2 * i].role = DrivenRole
      ]_vars

\* the Patient call of the second iteration was given the first Staff reply
C23_Witness ==
    /\ kind = "OP"
    /\ pc = "agent"
    /\ Len(run.patient_calls) = 2
    /\ run.patient_calls[1].user_prompt = << "<staff_greet>" >>
    /\ run.patient_calls[2].user_prompt = << "D1" >>
    /\ run.patient_calls[2].using_multi_turn
    /\ dialog_history[3].content = << "D1" >>
    /\ Len(dialog_history) = 4

\* C24: no step of simulate, whether the run returns or raises, changes the
\* controller's max_inferences, enable_llm_termination_check, checker prompt
\* template or checker client, nor the Doctor/Staff agent's max_inferences, greeting
\* and system_prompt, nor the Patient agent's system_prompt.
C24_SimulateFrame ==
    [][ /\ kind' = kind
        /\ max_inferences' = max_inferences
        /\ enable_llm_termination_check' = enable_llm_termination_check
        /\ checker_prompt' = checker_prompt
        /\ termination_checker_client' = termination_checker_client
        /\ agent'.max_inferences = agent.max_inferences
        /\ agent'.greet = agent.greet
        /\ agent'.system_prompt = agent.system_prompt
        /\ patient_agent'.system_prompt = patient_agent.system_prompt
      ]_vars

\* a second run, with the checker enabled, raised after two Staff replies
C24_Witness ==
    /\ kind = "OP"
    /\ runs = 2
    /\ pc = "raised"
    /\ enable_llm_termination_check
    /\ checker_prompt # <<>>
    /\ run.completed = 2
    /\ Len(run.checker_calls) >= 1
    /\ max_inferences = 3
    /\ agent.max_inferences = 3

\* C25 as stated: a run whose loop was left with k Doctor/Staff replies produced has
\* taken exactly k pauses, however the loop was left.
C25_PauseAfterEveryReply ==
    LoopEnded => run.sleeps = run.completed

\* C25, amended: the pause is taken at the end of every iteration that does not
\* leave the loop. A run that exhausted its budget with k replies has taken k
\* pauses; a run stopped by the detector or the checker at its k-th reply has taken
\* k - 1 pauses, none after the reply that stopped it; and at no time has a run taken
\* more pauses than it has replies.
C25_PauseUnlessStopped ==
    pc # "idle" =>
        /\ run.sleeps <= run.completed
        /\ LoopEnded =>
              /\ Outcome("exhausted") => run.sleeps = run.completed
              /\ DetectorFlagged(run.completed) \/ CheckerSaidYes(run.completed)
                    => run.sleeps = run.completed - 1
              /\ run.sleeps = run.completed - 1
                    => (run.completed >= 1 /\
                        (DetectorFlagged(run.completed) \/ CheckerSaidYes(run.completed)))

\* a run stopped by the detector at its second reply returned after one pause
C25_Witness ==
    /\ pc = "returned"
    /\ run.completed = 2
    /\ run.sleeps = 1
    /\ DetectorFlagged(2)
    /\ max_inferences = 3

----------------------------------------------------------------------------
(* Claim about successive simulate() calls, checked under SpecRuns *)

IsPrefix(a, b) == Len(a) <= Len(b) /\ SubSeq(b, 1, Len(a)) = a

\* what a client session holds now, against what it held when the run started
Carried(start, now) ==
    /\ IsPrefix(start[1].histories, now[1].histories)
    /\ start[1].already_set =>
          /\ now[1].already_set
          /\ Len(SystemEntries(start[1].histories)) = 1
          /\ SystemEntries(now[1].histories) = SystemEntries(start[1].histories)

\* C30: a simulate call made after an earlier run returned or raised starts with the
\* Patient agent's and the Doctor/Staff agent's client sessions exactly as that run
\* left them; throughout the run each session's history extends what it held at the
\* start, every request of the run is the history held so far plus the new user
\* entry, and a session whose system prompt was fixed keeps its one system entry and
\* gets no second one.
C30_SessionsSurviveSimulate ==
    [][ /\ (pc \in {"returned", "raised"} /\ pc' = "for")
           => /\ patient_agent'.client = patient_agent.client
              /\ agent'.client = agent.client
              /\ run'.at_start = [patient |-> patient_agent.client, agent |-> agent.client]
        /\ pc' # "idle"
           => /\ Carried(run'.at_start.patient, patient_agent'.client)
              /\ Carried(run'.at_start.agent, agent'.client)
        /\ PatientCalled = 1 /\ pc # "idle" /\ pc' # "for"
           => LET h == patient_agent.client[1].histories
                  h2 == patient_agent'.client[1].histories
              IN  /\ IsPrefix(h, h2)
                  /\ patient_agent.client[1].already_set =>
                        h2[Len(h) + 1] = UserEntry(run'.patient_calls[Len(run'.patient_calls)].user_prompt)
      ]_vars

\* the second OP run has called both agents again: each session holds the first
\* run's exchange followed by the second run's, under one system entry
C30_Witness ==
    /\ kind = "OP"
    /\ runs = 2
    /\ pc = "detect"
    /\ run.at_start.patient # <<>>
    /\ Len(run.at_start.patient[1].histories) >= 3
    /\ Len(run.at_start.agent[1].histories) >= 3
    /\ Len(patient_agent.client[1].histories) = Len(run.at_start.patient[1].histories) + 2
    /\ Len(agent.client[1].histories) = Len(run.at_start.agent[1].histories) + 2
    /\ Len(SystemEntries(agent.client[1].histories)) = 1
    /\ ~patient_agent.client[1].first_turn

----------------------------------------------------------------------------
(* Claim about prompt_valid_check, checked under SpecCheck *)

NameChars == {"a", "b"}

\* the {name}-style placeholders occurring in a prompt: the names, made of name
\* characters only, that stand between an opening and a closing brace
Placeholders(prompt) ==
    { SubSeq(prompt, i + 1, j - 1) :
        <<i, j>> \in { ij \in (1..Len(prompt)) \X (1..Len(prompt)) :
                         /\ ij[1] < ij[2]
                         /\ prompt[ij[1]] = "{"
                         /\ prompt[ij[2]] = "}"
                         /\ \A k \in (ij[1] + 1)..(ij[2] - 1) : prompt[k] \in NameChars } }

\* C21: prompt_valid_check(prompt, data) fails with ValueError (InvalidInput) if and
\* only if some {name}-style placeholder occurring in prompt is not a key of data,
\* and the error then lists exactly the missing placeholders; otherwise it returns
\* None, whatever other keys data holds.
C21_FailsIffPlaceholderMissing ==
    last.op = "prompt_valid_check" =>
        LET absent == { n \in Placeholders(last.prompt) : n \notin last.data_dict }
        IN  /\ last.error = "ValueError" <=> absent # {}
            /\ last.error = "ValueError" =>
                  { last.missing[i] : i \in 1..Len(last.missing) } = absent
            /\ last.error # "ValueError" =>
                  last.error = "none" /\ last.returned = << "<None>" >>

====
